---- MODULE Spec2Model ----
(***************************************************************************)
(* A model of the AsyncAPI generator: the schema inferrers, the two schema *)
(* registries, the topic/channel mappers and the document generators.      *)
(*                                                                         *)
(* Representation                                                          *)
(*   string that is only compared   a TLA+ string                          *)
(*   topic, channel id              a sequence of one-character strings    *)
(*   JSON value                     a record tagged by k                   *)
(*   JSONSchema fragment            a record whose optional fields are     *)
(*                                  present or absent (DOMAIN)             *)
(*   fragment.type                  <<"s", tag>> for a string,             *)
(*                                  <<"a", tag, ...>> for an array         *)
(*   fragment.properties, a JS      a sequence of <<key, value>> pairs in  *)
(*   object used as a dictionary    insertion order                        *)
(***************************************************************************)
EXTENDS Integers, Sequences, FiniteSets, TLC

VARIABLES
    build,          \* the deployment: "static" (browser-only, lib/) or "full" (server/)
    schemas,        \* SchemaRegistry.schemas: name -> entry
    hashToName,     \* SchemaRegistry.hashToName: hash -> name
    log,            \* the last two calls made on the registry (history)
    mergedInto,     \* name -> what was stored or merged into the entry (history)
    nCalls,         \* number of registry calls made so far
    messages,       \* the message records received so far
    config,         \* the generator configuration
    channels,       \* result of buildChannels(messages, config)
    processed,      \* result of processMessages(messages, config)
    doc,            \* the generated document (generatedSpec, spec), <<>> for null
    input,          \* the messages and configuration doc was generated from (history)
    mergeCall,      \* the last POST /api/merge: its two documents and its outcome (history)
    hashed,         \* a fragment and a variant of it, the inputs of hashSchema
    detected,       \* the topics given to detectParameters and what it returned
    manager,        \* a ChannelManager: its channels map and its registry
    added,          \* the calls made on the ChannelManager (history)
    eventLoop,      \* the server's call stack: the regenerations that have begun and not returned
    fnCall         \* a function of the program, the arguments given to it and what it returned

vars == <<build, schemas, hashToName, log, mergedInto, nCalls,
          messages, config, channels, processed, doc, input,
          mergeCall, hashed, detected, manager, added, eventLoop, fnCall>>
auxVars == <<mergeCall, hashed, detected, manager, added, eventLoop, fnCall>>
regVars == <<build, schemas, hashToName, log, mergedInto, nCalls>>
chanVars == <<messages, config, channels, processed, doc, input>>

-----------------------------------------------------------------------------
(* Generic helpers *)

\* Code-unit order of the strings that the code sorts (Array.prototype.sort).
Alphabet ==
    <<"_timestamp", "a", "array", "b", "boolean", "integer", "null", "number",
      "object", "string", "x", "y", "z">>

Rank(s) == CHOOSE i \in 1..Len(Alphabet) : Alphabet[i] = s

RECURSIVE InsertSorted(_, _)
InsertSorted(sorted, s) ==
    IF sorted = <<>> THEN <<s>>
    ELSE IF Rank(s) < Rank(Head(sorted)) THEN <<s>> \o sorted
    ELSE <<Head(sorted)>> \o InsertSorted(Tail(sorted), s)

\* Array.prototype.sort() on an array of strings (stable, ascending).
RECURSIVE Sort(_)
Sort(seq) ==
    IF seq = <<>> THEN <<>>
    ELSE InsertSorted(Sort(SubSeq(seq, 1, Len(seq) - 1)), seq[Len(seq)])

Range(seq) == {seq[i] : i \in 1..Len(seq)}

\* Array.from(new Set(seq)): first occurrences, in order.
RECURSIVE Dedupe(_)
Dedupe(seq) ==
    IF seq = <<>> THEN <<>>
    ELSE LET init == Dedupe(SubSeq(seq, 1, Len(seq) - 1))
             last == seq[Len(seq)]
         IN  IF last \in Range(init) THEN init ELSE Append(init, last)

RECURSIVE Filter(_, _)
Filter(seq, keep) ==
    IF seq = <<>> THEN <<>>
    ELSE (IF Head(seq) \in keep THEN <<Head(seq)>> ELSE <<>>) \o Filter(Tail(seq), keep)

\* A JS object used as a dictionary: pairs <<key, value>> in insertion order.
Keys(obj) == [i \in 1..Len(obj) |-> obj[i][1]]
HasKey(obj, key) == \E i \in 1..Len(obj) : obj[i][1] = key
Get(obj, key) == obj[CHOOSE i \in 1..Len(obj) : obj[i][1] = key][2]
\* obj[key] = value: an existing key keeps its position.
Put(obj, key, value) ==
    IF HasKey(obj, key)
    THEN [i \in 1..Len(obj) |-> IF obj[i][1] = key THEN <<key, value>> ELSE obj[i]]
    ELSE Append(obj, <<key, value>>)

\* An optional field of an object literal.
Opt(present, field) == IF present THEN field ELSE <<>>

-----------------------------------------------------------------------------
(* Strings that the code takes apart: sequences of one-character strings *)

DigitChars == <<"0", "1", "2", "3", "4", "5", "6", "7", "8", "9">>
LowerChars ==
    <<"a", "b", "c", "d", "e", "f", "g", "h", "i", "j", "k", "l", "m",
      "n", "o", "p", "q", "r", "s", "t", "u", "v", "w", "x", "y", "z">>
UpperChars ==
    <<"A", "B", "C", "D", "E", "F", "G", "H", "I", "J", "K", "L", "M",
      "N", "O", "P", "Q", "R", "S", "T", "U", "V", "W", "X", "Y", "Z">>

IsDigit(c) == \E i \in 1..Len(DigitChars) : DigitChars[i] = c
IsLower(c) == \E i \in 1..Len(LowerChars) : LowerChars[i] = c
IsUpper(c) == \E i \in 1..Len(UpperChars) : UpperChars[i] = c

toUpperCase(c) ==
    IF IsLower(c) THEN UpperChars[CHOOSE i \in 1..Len(LowerChars) : LowerChars[i] = c] ELSE c
toLowerCase(c) ==
    IF IsUpper(c) THEN LowerChars[CHOOSE i \in 1..Len(UpperChars) : UpperChars[i] = c] ELSE c

\* String(n) for a natural number.
RECURSIVE ToString10(_)
ToString10(n) ==
    IF n < 10 THEN <<DigitChars[n + 1]>>
    ELSE ToString10(n \div 10) \o <<DigitChars[(n % 10) + 1]>>

\* str.split(separator), the separator being one of the characters in seps.
RECURSIVE Split(_, _)
Split(str, seps) ==
    IF \E i \in 1..Len(str) : str[i] \in seps
    THEN LET i == CHOOSE j \in 1..Len(str) :
                    str[j] \in seps /\ \A k \in 1..(j - 1) : str[k] \notin seps
         IN  <<SubSeq(str, 1, i - 1)>> \o Split(SubSeq(str, i + 1, Len(str)), seps)
    ELSE <<str>>

\* parts.join(separator)
RECURSIVE Join(_, _)
Join(parts, sep) ==
    IF parts = <<>> THEN <<>>
    ELSE IF Len(parts) = 1 THEN parts[1]
    ELSE parts[1] \o sep \o Join(Tail(parts), sep)

\* str.replace(/[chars]/g, by): every character of the class replaced.
ReplaceChars(str, chars, by) ==
    [i \in 1..Len(str) |-> IF str[i] \in chars THEN by ELSE str[i]]

\* str.replace(/[^chars]/g, ''): only the characters of the class stay.
KeepChars(str, chars) == SelectSeq(str, LAMBDA c : c \in chars)

\* str.replace(/^_+|_+$/g, '')
RECURSIVE TrimUnderscores(_)
TrimUnderscores(str) ==
    IF str # <<>> /\ Head(str) = "_" THEN TrimUnderscores(Tail(str))
    ELSE IF str # <<>> /\ str[Len(str)] = "_"
    THEN TrimUnderscores(SubSeq(str, 1, Len(str) - 1))
    ELSE str

\* str.replace(/_+/g, '_')
RECURSIVE CollapseUnderscores(_)
CollapseUnderscores(str) ==
    IF Len(str) < 2 THEN str
    ELSE IF str[1] = "_" /\ str[2] = "_" THEN CollapseUnderscores(Tail(str))
    ELSE <<str[1]>> \o CollapseUnderscores(Tail(str))

\* str.replace(/\{([^}]+)\}/g, '$1'): the braces around a non-empty run of
\* characters other than "}" are removed, leftmost match first.
RECURSIVE StripBraces(_)
StripBraces(str) ==
    IF str = <<>> THEN <<>>
    ELSE IF /\ Head(str) = "{"
            /\ \E j \in 3..Len(str) : str[j] = "}"
            /\ str[2] # "}"
    THEN LET close == CHOOSE j \in 3..Len(str) :
                        str[j] = "}" /\ \A k \in 3..(j - 1) : str[k] # "}"
         IN  SubSeq(str, 2, close - 1) \o StripBraces(SubSeq(str, close + 1, Len(str)))
    ELSE <<Head(str)>> \o StripBraces(Tail(str))

-----------------------------------------------------------------------------
(* JSON values *)

NullV == [k |-> "null"]
Bool(b) == [k |-> "bool", b |-> b]
\* The number n + frac/10.
Num(n, frac) == [k |-> "num", n |-> n, frac |-> frac]
\* A string; matches is the set of format detectors whose regex it matches.
Str(s, matches) == [k |-> "str", s |-> s, matches |-> matches]
Arr(e) == [k |-> "arr", e |-> e]
Obj(f) == [k |-> "obj", f |-> f]

-----------------------------------------------------------------------------
(* Fragments *)

S(tag) == <<"s", tag>>
TypeOf(schema) == IF "type" \in DOMAIN schema THEN schema.type ELSE <<>>
IsType(schema, tag) == TypeOf(schema) = S(tag)
Tags(type) == IF type = <<>> THEN <<>> ELSE Tail(type)
Props(schema) == IF "properties" \in DOMAIN schema THEN schema.properties ELSE <<>>
Required(schema) == IF "required" \in DOMAIN schema THEN schema.required ELSE <<>>
HasItems(schema) == "items" \in DOMAIN schema

\* schema1.type !== schema2.type: strings compare by value, arrays by identity
\* (two fragments never share one array).
TypesDiffer(schema1, schema2) ==
    ~ /\ TypeOf(schema1) = TypeOf(schema2)
      /\ \/ TypeOf(schema1) = <<>>
         \/ TypeOf(schema1)[1] = "s"

UnionOfTypes(schema1, schema2) ==
    [type |-> <<"a">> \o Dedupe(Tags(TypeOf(schema1)) \o Tags(TypeOf(schema2)))]

Min(a, b) == IF a < b THEN a ELSE b

-----------------------------------------------------------------------------
(* lib/schema-inferrer.ts *)

\* The format detectors in probing order: <<regex, format>>.
Detectors ==
    << <<"iso-date-time", "date-time">>, <<"iso-date", "date">>,
       <<"us-date-time", "date-time">>, <<"time", "time">>, <<"uuid", "uuid">>,
       <<"email", "email">>, <<"uri", "uri">> >>

\* "" stands for undefined.
detectStringFormat(value) ==
    IF \E i \in 1..Len(Detectors) : Detectors[i][1] \in value.matches
    THEN LET first == CHOOSE i \in 1..Len(Detectors) :
                        /\ Detectors[i][1] \in value.matches
                        /\ \A j \in 1..(i - 1) : Detectors[j][1] \notin value.matches
         IN  Detectors[first][2]
    ELSE ""

inferStringSchema(value, includeExamples) ==
    [type |-> S("string")]
      @@ Opt(detectStringFormat(value) # "", [format |-> detectStringFormat(value)])
      @@ Opt(includeExamples /\ value.s # "", [examples |-> <<value>>])

lib_inferNumberSchema(value, includeExamples) ==
    [type |-> S(IF value.frac = 0 THEN "integer" ELSE "number")]
      @@ Opt(includeExamples, [examples |-> <<value>>])

ArraySampleCap == 10
ArrayExampleCap == 3

RECURSIVE lib_mergeSchemas(_, _)
RECURSIVE lib_mergeProperties(_, _)
RECURSIVE lib_inferSchema(_, _)
RECURSIVE lib_inferItems(_, _, _)
RECURSIVE lib_inferProperties(_)

\* mergeSchemas, object branch: the loop over Object.entries(schema2.properties).
lib_mergeProperties(merged, props2) ==
    IF props2 = <<>> THEN merged
    ELSE LET key == Head(props2)[1]
             prop == Head(props2)[2]
             next == IF HasKey(merged, key)
                     THEN Put(merged, key, lib_mergeSchemas(Get(merged, key), prop))
                     ELSE Put(merged, key, prop)
         IN  lib_mergeProperties(next, Tail(props2))

\* Required as the union of both required arrays.
lib_mergeRequired_union(schema1, schema2) ==
    Sort(Dedupe(Required(schema1) \o Required(schema2)))

\* Required = intersection of both required arrays, sorted.
lib_mergeRequired(schema1, schema2) ==
    Sort(Filter(Dedupe(Required(schema1)), Range(Required(schema2))))

lib_mergeSchemas(schema1, schema2) ==
    IF TypesDiffer(schema1, schema2) THEN UnionOfTypes(schema1, schema2)
    ELSE IF IsType(schema1, "object") /\ IsType(schema2, "object")
    THEN [type |-> S("object"),
          properties |-> lib_mergeProperties(Props(schema1), Props(schema2)),
          required |-> lib_mergeRequired(schema1, schema2)]
    ELSE IF IsType(schema1, "array") /\ IsType(schema2, "array")
    THEN [type |-> S("array")]
           @@ (IF HasItems(schema1) /\ HasItems(schema2)
               THEN [items |-> lib_mergeSchemas(schema1.items, schema2.items)]
               ELSE IF HasItems(schema1) THEN [items |-> schema1.items]
               ELSE IF HasItems(schema2) THEN [items |-> schema2.items]
               ELSE <<>>)
    ELSE schema1

\* inferArraySchema: the loop that merges the elements 1..min(length, 10) - 1.
lib_inferItems(value, i, items) ==
    IF i > Min(Len(value), ArraySampleCap) THEN items
    ELSE lib_inferItems(value, i + 1,
                        lib_mergeSchemas(items, lib_inferSchema(value[i], FALSE)))

lib_inferArraySchema(value, includeExamples) ==
    [type |-> S("array")]
      @@ Opt(Len(value) > 0,
             [items |-> lib_inferItems(value, 2, lib_inferSchema(value[1], FALSE))])
      @@ Opt(includeExamples /\ Len(value) > 0,
             [examples |-> <<Arr(SubSeq(value, 1, Min(Len(value), ArrayExampleCap)))>>])

lib_inferProperties(entries) ==
    IF entries = <<>> THEN <<>>
    ELSE Put(lib_inferProperties(SubSeq(entries, 1, Len(entries) - 1)),
             entries[Len(entries)][1],
             lib_inferSchema(entries[Len(entries)][2], FALSE))

lib_inferObjectSchema(value, includeExamples) ==
    [type |-> S("object"),
     properties |-> lib_inferProperties(value),
     required |-> Sort(Keys(value))]

lib_inferSchema(value, includeExamples) ==
    CASE value.k = "null" -> [type |-> S("null")]
      [] value.k = "undefined" -> <<>>
      [] value.k = "str" -> inferStringSchema(value, includeExamples)
      [] value.k = "num" -> lib_inferNumberSchema(value, includeExamples)
      [] value.k = "bool" ->
            [type |-> S("boolean")] @@ Opt(includeExamples, [examples |-> <<value>>])
      [] value.k = "arr" -> lib_inferArraySchema(value.e, includeExamples)
      [] value.k = "obj" -> lib_inferObjectSchema(value.f, includeExamples)

RECURSIVE lib_normalizeSchema(_)
RECURSIVE lib_normalizeProperties(_, _)

\* normalizeSchema: the loop over the sorted keys of schema.properties.
lib_normalizeProperties(props, sortedKeys) ==
    IF sortedKeys = <<>> THEN <<>>
    ELSE << <<Head(sortedKeys), lib_normalizeSchema(Get(props, Head(sortedKeys)))>> >>
           \o lib_normalizeProperties(props, Tail(sortedKeys))

lib_normalizeSchema(schema) ==
    Opt("type" \in DOMAIN schema, [type |-> TypeOf(schema)])
      @@ Opt("format" \in DOMAIN schema, [format |-> schema.format])
      @@ Opt("properties" \in DOMAIN schema,
             [properties |-> lib_normalizeProperties(Props(schema), Sort(Keys(Props(schema))))])
      @@ Opt(HasItems(schema), [items |-> lib_normalizeSchema(schema.items)])
      @@ Opt("required" \in DOMAIN schema, [required |-> Sort(schema.required)])

\* JSON.stringify of the normalized fragment: the keys are written in a fixed
\* order, so two strings are equal exactly when the normalized fragments are.
lib_hashSchema(schema) == lib_normalizeSchema(schema)

-----------------------------------------------------------------------------
(* server/schema/inferrer.ts *)

\* key.startsWith('_'), over the keys of the Alphabet.
StartsWithUnderscore(key) == key \in {"_timestamp"}

TimestampSchema ==
    [type |-> S("string"), format |-> "date-time",
     description |-> "Timestamp when the data was published"]

PrimitiveExampleCap == 5

RECURSIVE srv_mergeSchemas(_, _)
RECURSIVE srv_mergeKeys(_, _, _)
RECURSIVE srv_inferSchema(_, _)
RECURSIVE srv_inferProperties(_, _)

\* mergeObjectSchemas: the loop over allKeys.
srv_mergeKeys(allKeys, props1, props2) ==
    IF allKeys = <<>> THEN <<>>
    ELSE LET key == allKeys[Len(allKeys)]
             rest == srv_mergeKeys(SubSeq(allKeys, 1, Len(allKeys) - 1), props1, props2)
         IN  Put(rest, key,
                 IF HasKey(props1, key) /\ HasKey(props2, key)
                 THEN srv_mergeSchemas(Get(props1, key), Get(props2, key))
                 ELSE IF HasKey(props1, key) THEN Get(props1, key)
                 ELSE Get(props2, key))

mergeObjectSchemas(schema1, schema2) ==
    [type |-> S("object"),
     properties |-> srv_mergeKeys(Dedupe(Keys(Props(schema1)) \o Keys(Props(schema2))),
                                  Props(schema1), Props(schema2))]

mergeArraySchemas(schema1, schema2) ==
    [type |-> S("array")]
      @@ (IF HasItems(schema1) /\ HasItems(schema2)
          THEN [items |-> srv_mergeSchemas(schema1.items, schema2.items)]
          ELSE IF HasItems(schema1) THEN [items |-> schema1.items]
          ELSE IF HasItems(schema2) THEN [items |-> schema2.items]
          ELSE <<>>)

\* For primitives, merge examples (keep max 5).
srv_mergePrimitives(schema1, schema2) ==
    IF "examples" \in DOMAIN schema1 /\ "examples" \in DOMAIN schema2
    THEN LET exampleSet == Dedupe(schema1.examples \o schema2.examples)
         IN  [examples |-> SubSeq(exampleSet, 1, Min(Len(exampleSet), PrimitiveExampleCap))]
               @@ schema1
    ELSE schema1

srv_mergeSchemas(schema1, schema2) ==
    IF TypesDiffer(schema1, schema2) THEN UnionOfTypes(schema1, schema2)
    ELSE IF IsType(schema1, "object") /\ IsType(schema2, "object")
    THEN mergeObjectSchemas(schema1, schema2)
    ELSE IF IsType(schema1, "array") /\ IsType(schema2, "array")
    THEN mergeArraySchemas(schema1, schema2)
    ELSE srv_mergePrimitives(schema1, schema2)

srv_inferNumberSchema(value, includeExamples) ==
    [type |-> S(IF value.frac = 0 THEN "integer" ELSE "number")]
      @@ Opt(includeExamples, [examples |-> <<value>>])

srv_inferArraySchema(value, includeExamples) ==
    [type |-> S("array")]
      @@ Opt(Len(value) > 0, [items |-> srv_inferSchema(value[1], includeExamples)])

\* inferObjectSchema: the loop over Object.entries(value), metadata keys skipped.
srv_inferProperties(entries, includeExamples) ==
    IF entries = <<>> THEN <<>>
    ELSE LET rest == srv_inferProperties(SubSeq(entries, 1, Len(entries) - 1),
                                         includeExamples)
             key == entries[Len(entries)][1]
         IN  IF StartsWithUnderscore(key) THEN rest
             ELSE Put(rest, key, srv_inferSchema(entries[Len(entries)][2], includeExamples))

srv_inferObjectSchema(value, includeExamples) ==
    [type |-> S("object"),
     properties |-> Put(srv_inferProperties(value, includeExamples),
                        "_timestamp", TimestampSchema)]

srv_inferSchema(value, includeExamples) ==
    CASE value.k = "null" -> [type |-> S("null")]
      [] value.k = "undefined" -> <<>>
      [] value.k = "str" -> inferStringSchema(value, includeExamples)
      [] value.k = "num" -> srv_inferNumberSchema(value, includeExamples)
      [] value.k = "bool" ->
            [type |-> S("boolean")] @@ Opt(includeExamples, [examples |-> <<value>>])
      [] value.k = "arr" -> srv_inferArraySchema(value.e, includeExamples)
      [] value.k = "obj" -> srv_inferObjectSchema(value.f, includeExamples)

RECURSIVE srv_normalizeSchema(_)
RECURSIVE srv_normalizeProperties(_, _)

srv_normalizeProperties(props, propKeys) ==
    IF propKeys = <<>> THEN <<>>
    ELSE << <<Head(propKeys), srv_normalizeSchema(Get(props, Head(propKeys)))>> >>
           \o srv_normalizeProperties(props, Tail(propKeys))

\* A normalizeSchema that does not skip examples.
srv_normalizeSchema_withExamples(schema) ==
    [key \in DOMAIN schema |->
        CASE key = "properties" ->
                srv_normalizeProperties(schema.properties, Sort(Keys(schema.properties)))
          [] key = "items" -> srv_normalizeSchema(schema.items)
          [] key = "required" -> Sort(schema.required)
          [] OTHER -> schema[key]]

\* normalizeSchema: every key but examples is kept (the keys are visited in
\* sorted order, which fixes the order in which JSON.stringify writes them).
srv_normalizeSchema(schema) ==
    [key \in DOMAIN schema \ {"examples"} |->
        CASE key = "properties" ->
                srv_normalizeProperties(schema.properties, Sort(Keys(schema.properties)))
          [] key = "items" -> srv_normalizeSchema(schema.items)
          [] key = "required" -> Sort(schema.required)
          [] OTHER -> schema[key]]

srv_hashSchema(schema) == srv_normalizeSchema(schema)

schemasEqual(schema1, schema2) == srv_hashSchema(schema1) = srv_hashSchema(schema2)

-----------------------------------------------------------------------------
(* The schema registries: lib/schema-registry.ts and server/registry *)

\* Map.set(key, value)
MapSet(map, key, value) ==
    [k \in DOMAIN map \cup {key} |-> IF k = key THEN value ELSE map[k]]

EmptyMap == <<>>

Used(registry, name) ==
    [registry EXCEPT ![name].usageCount = @ + 1]

\* register, the exact-content branch: the entry is used once more.
Matched(reg, existingName) ==
    [schemas |-> Used(reg.schemas, existingName),
     hashToName |-> reg.hashToName,
     ret |-> existingName, how |-> "match"]

\* A new-schema branch that maps the hash and does not store the entry.
Created_unstored(reg, name, schema, hash) ==
    [schemas |-> reg.schemas,
     hashToName |-> MapSet(reg.hashToName, hash, name),
     ret |-> name, how |-> "new"]

\* register, the new-schema branch.
Created(reg, name, schema, hash) ==
    [schemas |-> MapSet(reg.schemas, name,
                        [name |-> name, schema |-> schema, usageCount |-> 1]),
     hashToName |-> MapSet(reg.hashToName, hash, name),
     ret |-> name, how |-> "new"]

\* lib register, the name-collision branch: merge into the entry and map the
\* hash of the merged fragment (the mapping of the old hash stays).
lib_merged(reg, name, schema) ==
    LET mergedSchema == lib_mergeSchemas(reg.schemas[name].schema, schema)
        newHash == lib_hashSchema(mergedSchema)
    IN  [schemas |-> [reg.schemas EXCEPT
                        ![name].schema = mergedSchema,
                        ![name].usageCount = @ + 1],
         hashToName |-> MapSet(reg.hashToName, newHash, name),
         ret |-> name, how |-> "merge"]

\* this.hashToName.get(hash); <<>> stands for undefined.
lib_existingName(reg, hash) ==
    IF hash \in DOMAIN reg.hashToName THEN reg.hashToName[hash] ELSE <<>>

\* A register that looks at the name before the content.
lib_register_nameFirst(reg, name, schema) ==
    IF name \in DOMAIN reg.schemas
    THEN lib_merged(reg, name, schema)
    ELSE IF lib_existingName(reg, lib_hashSchema(schema)) # <<>>
    THEN Matched(reg, lib_existingName(reg, lib_hashSchema(schema)))
    ELSE Created(reg, name, schema, lib_hashSchema(schema))

\* A register that replaces the fragment of a taken name instead of merging.
lib_register_replace(reg, name, schema) ==
    IF lib_existingName(reg, lib_hashSchema(schema)) # <<>>
    THEN Matched(reg, lib_existingName(reg, lib_hashSchema(schema)))
    ELSE IF name \in DOMAIN reg.schemas
    THEN [schemas |-> [reg.schemas EXCEPT
                         ![name].schema = schema,
                         ![name].usageCount = @ + 1],
          hashToName |-> MapSet(reg.hashToName, lib_hashSchema(schema), name),
          ret |-> name, how |-> "merge"]
    ELSE Created(reg, name, schema, lib_hashSchema(schema))

\* lib SchemaRegistry.register: the registry after the call, the name returned
\* (ret) and the branch taken (how). `if (existingName)` is a truthiness test:
\* the empty name <<>> fails it.
lib_register(reg, name, schema) ==
    IF lib_existingName(reg, lib_hashSchema(schema)) # <<>>
    THEN Matched(reg, lib_existingName(reg, lib_hashSchema(schema)))
    ELSE IF name \in DOMAIN reg.schemas
    THEN lib_merged(reg, name, schema)
    ELSE Created(reg, name, schema, lib_hashSchema(schema))

\* `${name}_${counter}`
Suffixed(name, counter) == name \o <<"_">> \o ToString10(counter)

\* server SchemaRegistry.register, the while loop: the first candidate that is
\* free, or that holds the same content.
RECURSIVE srv_uniqueName(_, _, _, _, _)
\* A loop that takes name_1 without looking whether it is free.
srv_uniqueName_once(reg, name, hash, uniqueName, counter) ==
    IF uniqueName \notin DOMAIN reg.schemas
    THEN [same |-> FALSE, name |-> uniqueName]
    ELSE [same |-> FALSE, name |-> Suffixed(name, counter)]

srv_uniqueName(reg, name, hash, uniqueName, counter) ==
    IF uniqueName \notin DOMAIN reg.schemas
    THEN [same |-> FALSE, name |-> uniqueName]
    ELSE IF srv_hashSchema(reg.schemas[uniqueName].schema) = hash
    THEN [same |-> TRUE, name |-> uniqueName]
    ELSE srv_uniqueName(reg, name, hash, Suffixed(name, counter), counter + 1)

srv_register(reg, name, schema) ==
    LET hash == srv_hashSchema(schema)
    IN  IF hash \in DOMAIN reg.hashToName
        THEN Matched(reg, reg.hashToName[hash])
        ELSE LET found == srv_uniqueName(reg, name, hash, name, 1)
             IN  IF found.same
                 THEN Matched(reg, found.name)
                 ELSE Created(reg, found.name, schema, hash)

NewRegistry == [schemas |-> EmptyMap, hashToName |-> EmptyMap]

-----------------------------------------------------------------------------
(* server/channels: buildChannels and the topic substitutions *)

\* A field of a rule that is present and truthy (a non-empty string or list).
Truthy(sub, field) == field \in DOMAIN sub /\ sub[field] # <<>>

\* The regular expressions that occur in rules.
AnchoredDigits == <<"^", "\\", "d", "+", "$">>
DigitRun == <<"\\", "d", "+">>
\* An unterminated group: no regular expression.
InvalidPattern == <<"(">>

\* new RegExp(pattern) throws a SyntaxError.
RegExpThrows(pattern) == pattern = InvalidPattern

\* parts[i] for an index that is no element of the array.
Undefined == <<"undefined">>
\* String(value), the conversion RegExp.prototype.test applies first.
StringOf(value) ==
    IF value = Undefined THEN <<"u", "n", "d", "e", "f", "i", "n", "e", "d">> ELSE value

HasDigit(str) == \E i \in 1..Len(str) : IsDigit(str[i])
AllDigits(str) == \A i \in 1..Len(str) : IsDigit(str[i])

\* new RegExp(pattern).test(value), for a pattern that is a regular expression
RegExpTest(pattern, value) ==
    CASE pattern = AnchoredDigits -> StringOf(value) # <<>> /\ AllDigits(StringOf(value))
      [] pattern = DigitRun -> HasDigit(StringOf(value))
      [] OTHER -> FALSE

matchesSubstitution(value, sub) ==
    IF Truthy(sub, "values") THEN value \in Range(sub.values)
    ELSE IF Truthy(sub, "pattern") THEN RegExpTest(sub.pattern, value)
    ELSE TRUE

\* matchesSubstitution throws: it reaches new RegExp with an invalid pattern.
matchesSubstitutionThrows(sub) ==
    ~Truthy(sub, "values") /\ Truthy(sub, "pattern") /\ RegExpThrows(sub.pattern)

\* `{${sub.parameterName}}`
Placeholder(parameterName) == <<"{">> \o parameterName \o <<"}">>

\* `sub.levelIndex < parts.length`: false when levelIndex is undefined.
LevelInRange(sub, parts) == "levelIndex" \in DOMAIN sub /\ sub.levelIndex < Len(parts)

\* parts[sub.levelIndex]
LevelValue(sub, parts) ==
    IF sub.levelIndex >= 0 THEN parts[sub.levelIndex + 1] ELSE Undefined

\* parts[sub.levelIndex] = ...: a negative index adds a property to the array
\* object, which join does not read.
SetLevel(sub, parts) ==
    IF sub.levelIndex >= 0
    THEN [parts EXCEPT ![sub.levelIndex + 1] = Placeholder(sub.parameterName)]
    ELSE parts

\* The loop of applySubstitutions from rule i on.
RECURSIVE applyRules(_, _, _, _)
applyRules(parts, parameters, substitutions, i) ==
    IF i > Len(substitutions)
    THEN [parameterizedTopic |-> Join(parts, <<"/">>), parameters |-> parameters]
    ELSE LET sub == substitutions[i]
         IN  IF LevelInRange(sub, parts) /\ matchesSubstitution(LevelValue(sub, parts), sub)
             THEN applyRules(SetLevel(sub, parts),
                             Put(parameters, sub.parameterName, LevelValue(sub, parts)),
                             substitutions, i + 1)
             ELSE applyRules(parts, parameters, substitutions, i + 1)

applySubstitutions(topic, substitutions) ==
    applyRules(Split(topic, {"/"}), <<>>, substitutions, 1)

\* applySubstitutions throws: some rule of a level the topic has makes
\* matchesSubstitution throw (an assignment to parts[i] leaves parts.length).
applySubstitutionsThrows(topic, substitutions) ==
    \E i \in 1..Len(substitutions) :
        /\ LevelInRange(substitutions[i], Split(topic, {"/"}))
        /\ matchesSubstitutionThrows(substitutions[i])

\* substitutions.find(s => s.parameterName === paramName)
FindRule(substitutions, paramName) ==
    substitutions[CHOOSE i \in 1..Len(substitutions) :
                    /\ substitutions[i].parameterName = paramName
                    /\ \A j \in 1..(i - 1) : substitutions[j].parameterName # paramName]

ParameterDefinition(sub) ==
    Opt(Truthy(sub, "description"), [description |-> sub.description])
    @@ Opt(Truthy(sub, "values"), [enum |-> sub.values])

buildParameterDefinitions(usedParameters, substitutions) ==
    [i \in 1..Len(usedParameters) |->
        <<usedParameters[i][1],
          ParameterDefinition(FindRule(substitutions, usedParameters[i][1]))>>]

topicToChannelId(topic) ==
    CollapseUnderscores(
        TrimUnderscores(
            ReplaceChars(StripBraces(topic), {"/", "-", "."}, "_")))

\* Array.from(channelMap.values())
Values(map) == [i \in 1..Len(map) |-> map[i][2]]

\* The body of both channel loops: create the channel of this key when the
\* map has none, then push the message to it.
Pushed(channelMap, key, fresh, message) ==
    LET had == IF HasKey(channelMap, key) THEN channelMap ELSE Put(channelMap, key, fresh)
    IN  Put(had, key, [Get(had, key) EXCEPT !.messages = Append(@, message)])

RECURSIVE verboseLoop(_, _)
verboseLoop(channelMap, msgs) ==
    IF msgs = <<>> THEN channelMap
    ELSE verboseLoop(
            Pushed(channelMap, Head(msgs).topic,
                   [channelId |-> topicToChannelId(Head(msgs).topic),
                    topic |-> Head(msgs).topic,
                    parameters |-> <<>>,
                    messages |-> <<>>],
                   Head(msgs)),
            Tail(msgs))

\* The same loop with the channel map keyed by the channel id (a variant).
RECURSIVE verboseLoop_byChannelId(_, _)
verboseLoop_byChannelId(channelMap, msgs) ==
    IF msgs = <<>> THEN channelMap
    ELSE verboseLoop_byChannelId(
            Pushed(channelMap, topicToChannelId(Head(msgs).topic),
                   [channelId |-> topicToChannelId(Head(msgs).topic),
                    topic |-> Head(msgs).topic,
                    parameters |-> <<>>,
                    messages |-> <<>>],
                   Head(msgs)),
            Tail(msgs))

buildVerboseChannels_byChannelId(msgs) == Values(verboseLoop_byChannelId(<<>>, msgs))
buildVerboseChannels(msgs) == Values(verboseLoop(<<>>, msgs))

\* One round of the loop of buildParameterizedChannels after applySubstitutions
\* has returned.
parameterizedPushed(channelMap, message, substitutions, applied) ==
    Pushed(channelMap, applied.parameterizedTopic,
           [channelId |-> topicToChannelId(applied.parameterizedTopic),
            topic |-> applied.parameterizedTopic,
            parameters |-> buildParameterDefinitions(applied.parameters, substitutions),
            messages |-> <<>>],
           message)

RECURSIVE parameterizedLoop(_, _, _)
parameterizedLoop(channelMap, msgs, substitutions) ==
    IF msgs = <<>> THEN channelMap
    ELSE parameterizedLoop(
            parameterizedPushed(channelMap, Head(msgs), substitutions,
                                applySubstitutions(Head(msgs).topic, substitutions)),
            Tail(msgs), substitutions)

\* The same function with only the first rule of the list applied (a variant).
buildParameterizedChannels_firstRule(msgs, substitutions) ==
    Values(parameterizedLoop(<<>>, msgs,
                             IF substitutions = <<>> THEN <<>> ELSE <<Head(substitutions)>>))
buildParameterizedChannels(msgs, substitutions) ==
    Values(parameterizedLoop(<<>>, msgs, substitutions))

buildChannels(msgs, cfg) ==
    IF cfg.channelMode = "verbose"
    THEN buildVerboseChannels(msgs)
    ELSE buildParameterizedChannels(msgs, cfg.topicSubstitutions)

\* buildChannels throws: nothing on the way from matchesSubstitution to
\* buildChannels catches the SyntaxError.
buildChannelsThrows(msgs, cfg) ==
    /\ cfg.channelMode # "verbose"
    /\ \E i \in 1..Len(msgs) :
          applySubstitutionsThrows(msgs[i].topic, cfg.topicSubstitutions)

-----------------------------------------------------------------------------
(* lib/channel-manager.ts: processMessages *)

\* str.replace(/\d+/g, replacement): every maximal run of digits replaced.
RECURSIVE ReplaceDigitRuns(_, _)
ReplaceDigitRuns(str, replacement) ==
    IF str = <<>> THEN <<>>
    ELSE IF ~IsDigit(Head(str)) THEN <<Head(str)>> \o ReplaceDigitRuns(Tail(str), replacement)
    ELSE IF Len(str) > 1 /\ IsDigit(str[2]) THEN ReplaceDigitRuns(Tail(str), replacement)
    ELSE replacement \o ReplaceDigitRuns(Tail(str), replacement)

\* str.replace(new RegExp(pattern, 'g'), replacement) inside try/catch: an
\* invalid pattern leaves the string as it is.
RegExpReplaceAll(str, pattern, replacement) ==
    CASE RegExpThrows(pattern) -> str
      [] pattern = DigitRun -> ReplaceDigitRuns(str, replacement)
      [] pattern = AnchoredDigits ->
            IF str # <<>> /\ AllDigits(str) THEN replacement ELSE str
      [] OTHER -> str

RECURSIVE applyTopicSubstitutions(_, _)
applyTopicSubstitutions(topic, substitutions) ==
    IF substitutions = <<>> THEN topic
    ELSE applyTopicSubstitutions(
            IF Truthy(Head(substitutions), "pattern") /\ Truthy(Head(substitutions), "replacement")
            THEN RegExpReplaceAll(topic, Head(substitutions).pattern,
                                  Head(substitutions).replacement)
            ELSE topic,
            Tail(substitutions))

\* part.charAt(0).toUpperCase() + part.slice(1).toLowerCase()
Capitalized(part) ==
    [i \in 1..Len(part) |-> IF i = 1 THEN toUpperCase(part[i]) ELSE toLowerCase(part[i])]

RECURSIVE Concat(_)
Concat(parts) == IF parts = <<>> THEN <<>> ELSE Head(parts) \o Concat(Tail(parts))

generateSchemaName(topic) ==
    LET parts == SelectSeq(Split(topic, {"/", ".", "-", "_"}), LAMBDA part : Len(part) > 0)
    IN  Concat([i \in 1..Len(parts) |-> Capitalized(parts[i])])
        \o <<"P", "a", "y", "l", "o", "a", "d">>

LibExampleCap == 3

\* registry.toRecord()
toRecord(reg) == [name \in DOMAIN reg.schemas |-> reg.schemas[name].schema]

\* A round that keeps every payload as an example.
lib_processed_uncapped(state, message, topic, registered) ==
    LET had == IF HasKey(state.channelMap, topic)
               THEN state.channelMap
               ELSE Put(state.channelMap, topic,
                        [topic |-> topic, schemaRef |-> registered.ret,
                         messageCount |-> 0, examples |-> <<>>])
    IN  [registry |-> [schemas |-> registered.schemas,
                       hashToName |-> registered.hashToName],
         channelMap |->
            Put(had, topic,
                [Get(had, topic) EXCEPT
                   !.messageCount = @ + 1,
                   !.examples = Append(@, message.payload)])]

\* One round of the loop of processMessages after register has returned.
lib_processed(state, message, topic, registered) ==
    LET had == IF HasKey(state.channelMap, topic)
               THEN state.channelMap
               ELSE Put(state.channelMap, topic,
                        [topic |-> topic, schemaRef |-> registered.ret,
                         messageCount |-> 0, examples |-> <<>>])
    IN  [registry |-> [schemas |-> registered.schemas,
                       hashToName |-> registered.hashToName],
         channelMap |->
            Put(had, topic,
                [Get(had, topic) EXCEPT
                   !.messageCount = @ + 1,
                   !.examples = IF Len(@) < LibExampleCap
                                THEN Append(@, message.payload) ELSE @])]

\* inferSchema gets the schema name as includeExamples, a non-empty string.
lib_registered(state, message, topic, schemaName) ==
    lib_processed(state, message, topic,
                  lib_register(state.registry, schemaName,
                               lib_inferSchema(message.payload, schemaName # <<>>)))

lib_substituted(state, message, topic) ==
    lib_registered(state, message, topic, generateSchemaName(topic))

\* One round of the loop of processMessages.
lib_processMessage(state, message, cfg) ==
    lib_substituted(state, message,
                    applyTopicSubstitutions(message.topic, cfg.topicSubstitutions))

RECURSIVE lib_processLoop(_, _, _)
lib_processLoop(state, msgs, cfg) ==
    IF msgs = <<>> THEN state
    ELSE lib_processLoop(lib_processMessage(state, Head(msgs), cfg), Tail(msgs), cfg)

lib_result(done) ==
    [channels |-> Values(done.channelMap), schemas |-> toRecord(done.registry)]

processMessages(msgs, cfg) ==
    lib_result(lib_processLoop([registry |-> NewRegistry, channelMap |-> <<>>], msgs, cfg))

-----------------------------------------------------------------------------
(* server/generators: asyncapi-3.0.ts and asyncapi-2.6.ts *)
(* Of a document the model keeps asyncapi, servers, channels, operations   *)
(* and components; info, bindings and the free-text fields (title,         *)
(* summary, description of an operation or a server, host) are left out.   *)

\* { $ref: '#/a/b/c' }, the pointer kept as the tuple of its segments.
Ref(path) == [ref |-> path]

Payload_ == <<"_", "p", "a", "y", "l", "o", "a", "d">>
Message_ == <<"_", "m", "e", "s", "s", "a", "g", "e">>
Receive_ == <<"r", "e", "c", "e", "i", "v", "e", "_">>
Publish_ == <<"p", "u", "b", "l", "i", "s", "h", "_">>
Subscribe_ == <<"s", "u", "b", "s", "c", "r", "i", "b", "e", "_">>

\* One round of the loop of groupMessagesBySchema, after register has returned.
srv_grouped(state, registered) ==
    [registry |-> [schemas |-> registered.schemas,
                   hashToName |-> registered.hashToName],
     schemaMap |->
        Put(state.schemaMap, registered.ret,
            (IF HasKey(state.schemaMap, registered.ret)
             THEN Get(state.schemaMap, registered.ret) ELSE 0) + 1)]

\* One round of the loop: a record with a modelName registers under it a
\* fragment inferred without examples, another one registers
\* `${channelId}_payload` with examples.
srv_groupMessage(state, message, channelId) ==
    srv_grouped(state,
                srv_register(state.registry,
                             IF message.modelName # <<>>
                             THEN message.modelName ELSE channelId \o Payload_,
                             srv_inferSchema(message.payload, message.modelName = <<>>)))

RECURSIVE srv_groupLoop(_, _, _)
srv_groupLoop(state, msgs, channelId) ==
    IF msgs = <<>> THEN state
    ELSE srv_groupLoop(srv_groupMessage(state, Head(msgs), channelId), Tail(msgs), channelId)

\* Returns the map and the registry the calls have changed.
groupMessagesBySchema(channel, registry) ==
    srv_groupLoop([registry |-> registry, schemaMap |-> <<>>],
                  channel.messages, channel.channelId)

Message30(schemaName) ==
    [name |-> schemaName, contentType |-> "application/json",
     payload |-> Ref(<<"components", "schemas", schemaName>>)]

\* buildChannel30 after groupMessagesBySchema has returned.
srv_channel30(channel, grouped) ==
    LET names == Keys(grouped.schemaMap)
        msgIds == [i \in 1..Len(names) |-> channel.channelId \o <<"_">> \o names[i]]
    IN  [channelDef |->
            [address |-> channel.topic,
             messages |-> [i \in 1..Len(names) |->
                             <<msgIds[i], Ref(<<"components", "messages", msgIds[i]>>)>>]]
            @@ Opt(Len(channel.parameters) > 0, [parameters |-> channel.parameters]),
         operation |->
            [action |-> "receive",
             channel |-> Ref(<<"channels", channel.channelId>>),
             messages |-> [i \in 1..Len(names) |->
                             Ref(<<"channels", channel.channelId, "messages", msgIds[i]>>)]],
         messages |-> [i \in 1..Len(names) |-> <<msgIds[i], Message30(names[i])>>],
         registry |-> grouped.registry]

srv_buildChannel30(channel, registry) ==
    srv_channel30(channel, groupMessagesBySchema(channel, registry))

\* Object.entries(messages) put into doc.components.messages one by one.
RECURSIVE PutAll(_, _)
PutAll(obj, entries) ==
    IF entries = <<>> THEN obj
    ELSE PutAll(Put(obj, Head(entries)[1], Head(entries)[2]), Tail(entries))

\* The body of the loop of generateAsyncAPI30 after buildChannel30 has returned.
srv_added30(doc0, channelId, built) ==
    [doc0 EXCEPT
       !.channels = Put(@, channelId, built.channelDef),
       !.operations = Put(@, Receive_ \o channelId, built.operation),
       !.components.messages = PutAll(@, built.messages)]

srv_stepped30(state, channel, built) ==
    [doc |-> srv_added30(state.doc, channel.channelId, built), registry |-> built.registry]

srv_step30(state, channel) ==
    srv_stepped30(state, channel, srv_buildChannel30(channel, state.registry))

\* The loop of generateAsyncAPI30; state holds the document and the registry.
RECURSIVE srv_loop30(_, _)
srv_loop30(state, chans) ==
    IF chans = <<>> THEN state
    ELSE srv_loop30(srv_step30(state, Head(chans)), Tail(chans))

\* Returns the document and the registry the generation has changed.
\* doc.components.schemas = registry.toRecord()
WithSchemas(state) ==
    [doc |-> [state.doc EXCEPT !.components.schemas = toRecord(state.registry)],
     registry |-> state.registry]

srv_generateAsyncAPI30(chans, registry) ==
    WithSchemas(
        srv_loop30([doc |-> [asyncapi |-> "3.0.0", channels |-> <<>>, operations |-> <<>>,
                             components |-> [schemas |-> <<>>, messages |-> <<>>]],
                    registry |-> registry],
                   chans))

buildMessage26(schemaName) ==
    [name |-> schemaName, contentType |-> "application/json",
     payload |-> Ref(<<"components", "schemas", schemaName>>)]

\* buildOperation26 after groupMessagesBySchema has returned.
srv_operation26(channel, grouped) ==
    LET names == Keys(grouped.schemaMap)
    IN  [operation |->
            [operationId |-> Publish_ \o channel.channelId]
            @@ (IF Len(names) = 1 THEN [message |-> buildMessage26(names[1])]
                ELSE IF Len(names) > 1
                THEN [message |-> [oneOf |-> [i \in 1..Len(names) |-> buildMessage26(names[i])]]]
                ELSE <<>>),
         registry |-> grouped.registry]

buildOperation26(channel, registry) ==
    srv_operation26(channel, groupMessagesBySchema(channel, registry))

Parameter26(def) ==
    Opt("description" \in DOMAIN def, [description |-> def.description])
    @@ [schema |-> IF "enum" \in DOMAIN def
                   THEN [type |-> "string", enum |-> def.enum]
                   ELSE [type |-> "string"]]

\* buildChannelItem26 after buildOperation26 has returned.
srv_channelItem26(channel, built) ==
    [channelItem |->
        Opt(Len(channel.parameters) > 0,
            [parameters |-> [i \in 1..Len(channel.parameters) |->
                                <<channel.parameters[i][1],
                                  Parameter26(channel.parameters[i][2])>>]])
        @@ [publish |-> built.operation],
     registry |-> built.registry]

srv_buildChannelItem26(channel, registry) ==
    srv_channelItem26(channel, buildOperation26(channel, registry))

srv_stepped26(state, channel, built) ==
    [doc |-> [state.doc EXCEPT !.channels = Put(@, channel.topic, built.channelItem)],
     registry |-> built.registry]

srv_step26(state, channel) ==
    srv_stepped26(state, channel, srv_buildChannelItem26(channel, state.registry))

\* The loop of generateAsyncAPI26; state holds the document and the registry.
RECURSIVE srv_loop26(_, _)
srv_loop26(state, chans) ==
    IF chans = <<>> THEN state
    ELSE srv_loop26(srv_step26(state, Head(chans)), Tail(chans))

srv_generateAsyncAPI26(chans, registry) ==
    WithSchemas(
        srv_loop26([doc |-> [asyncapi |-> "2.6.0", channels |-> <<>>,
                             components |-> [schemas |-> <<>>, messages |-> <<>>]],
                    registry |-> registry],
                   chans))

UserPassword == <<"u", "s", "e", "r", "P", "a", "s", "s", "w", "o", "r", "d">>

\* buildServers30: undefined (<<>>) without config.mqtt; a username that is
\* undefined or empty (<<>>) gives no security.
buildServers30(cfg) ==
    IF "mqtt" \notin DOMAIN cfg THEN <<>>
    ELSE [production |->
             [protocol |-> "mqtt"]
             @@ Opt(cfg.mqtt.username # <<>>,
                    [security |->
                        <<Ref(<<"components", "securitySchemes", UserPassword>>)>>])]

\* buildServers26 where config.servers is undefined or empty.
buildServers26(cfg) ==
    IF "mqtt" \notin DOMAIN cfg THEN <<>>
    ELSE [production |-> [protocol |-> "mqtt"]]

\* servers: buildServers(config) of the document literal; an undefined
\* servers is no field.
WithServers(generated, servers) ==
    [doc |-> generated.doc @@ Opt(servers # <<>>, [servers |-> servers]),
     registry |-> generated.registry]

generateAsyncAPIFromChannels(chans, registry, cfg) ==
    IF cfg.asyncApiVersion = "2.6.0"
    THEN WithServers(srv_generateAsyncAPI26(chans, registry), buildServers26(cfg))
    ELSE WithServers(srv_generateAsyncAPI30(chans, registry), buildServers30(cfg))

-----------------------------------------------------------------------------
(* server/generators: the merge of two documents *)

\* record.name, or fallback where the code reads undefined.
Field(record, name, fallback) ==
    IF name \in DOMAIN record THEN record[name] ELSE fallback

\* doc.components?.name
Component(d, name, fallback) ==
    IF "components" \in DOMAIN d THEN Field(d.components, name, fallback) ELSE fallback

\* The loops "if (!target[name]) target[name] = value" over Object.entries.
RECURSIVE PutMissing(_, _)
PutMissing(obj, entries) ==
    IF entries = <<>> THEN obj
    ELSE PutMissing(IF HasKey(obj, Head(entries)[1]) THEN obj
                    ELSE Put(obj, Head(entries)[1], Head(entries)[2]),
                    Tail(entries))

\* The same loop over the schemas, kept by name: an existing name keeps its
\* schema.
MergedSchemas(existingSchemas, newSchemas) == existingSchemas @@ newSchemas

\* The references an operation already lists; '' for an inline message.
OperationRefs(operation) ==
    {IF "ref" \in DOMAIN operation.messages[i] THEN operation.messages[i].ref ELSE <<>> :
        i \in 1..Len(operation.messages)}

srv_mergedOperation30(existing, newOp, existingRefs) ==
    [messages |->
        Field(existing, "messages", <<>>)
        \o SelectSeq(newOp.messages,
                     LAMBDA m : "ref" \in DOMAIN m => m.ref \notin existingRefs)]
    @@ existing

mergeOperations30(existing, newOp) ==
    IF "messages" \in DOMAIN newOp
    THEN srv_mergedOperation30(existing, newOp,
                               OperationRefs([messages |-> Field(existing, "messages", <<>>)]))
    ELSE existing

\* { ...existing.parameters, ...newChannel.parameters } and the same of messages
mergeChannels30(existing, newChannel) ==
    Opt("parameters" \in DOMAIN newChannel,
        [parameters |-> PutAll(Field(existing, "parameters", <<>>),
                               Field(newChannel, "parameters", <<>>))])
    @@ Opt("messages" \in DOMAIN newChannel,
           [messages |-> PutAll(Field(existing, "messages", <<>>),
                                Field(newChannel, "messages", <<>>))])
    @@ existing

RECURSIVE srv_mergedChannels30(_, _)
srv_mergedChannels30(channelMap, entries) ==
    IF entries = <<>> THEN channelMap
    ELSE srv_mergedChannels30(
            Put(channelMap, Head(entries)[1],
                IF HasKey(channelMap, Head(entries)[1])
                THEN mergeChannels30(Get(channelMap, Head(entries)[1]), Head(entries)[2])
                ELSE Head(entries)[2]),
            Tail(entries))

RECURSIVE srv_mergedOperations30(_, _)
srv_mergedOperations30(operationMap, entries) ==
    IF entries = <<>> THEN operationMap
    ELSE srv_mergedOperations30(
            Put(operationMap, Head(entries)[1],
                IF HasKey(operationMap, Head(entries)[1])
                THEN mergeOperations30(Get(operationMap, Head(entries)[1]), Head(entries)[2])
                ELSE Head(entries)[2]),
            Tail(entries))

\* A field newDoc does not have leaves the copy of the existing one as it is.
mergeAsyncAPI30(existing, newDoc) ==
    [channels |-> srv_mergedChannels30(Field(existing, "channels", <<>>),
                                       Field(newDoc, "channels", <<>>)),
     operations |-> srv_mergedOperations30(Field(existing, "operations", <<>>),
                                           Field(newDoc, "operations", <<>>)),
     components |->
        [schemas |-> MergedSchemas(Component(existing, "schemas", EmptyMap),
                                   Component(newDoc, "schemas", EmptyMap)),
         messages |-> PutMissing(Component(existing, "messages", <<>>),
                                 Component(newDoc, "messages", <<>>))]]
    @@ existing

\* (msg.payload as { $ref?: string })?.$ref is a non-empty string
HasPayloadRef(message) ==
    "payload" \in DOMAIN message /\ "ref" \in DOMAIN message.payload

Messages26(message) ==
    IF "oneOf" \in DOMAIN message THEN message.oneOf ELSE <<message>>

PayloadRefs(list) ==
    {list[i].payload.ref : i \in {n \in 1..Len(list) : HasPayloadRef(list[n])}}

srv_combined26(allMessages) ==
    IF Len(allMessages) = 1 THEN allMessages[1] ELSE [oneOf |-> allMessages]

\* existingRefs is not extended while the new messages are pushed.
srv_mergedMessages26(existingMessages, newMessages, existingRefs) ==
    srv_combined26(
        existingMessages
        \o SelectSeq(newMessages,
                     LAMBDA msg : HasPayloadRef(msg) /\ msg.payload.ref \notin existingRefs))

mergeMessages26(existing, newMsg) ==
    srv_mergedMessages26(Messages26(existing), Messages26(newMsg),
                         PayloadRefs(Messages26(existing)))

\* mergeChannelItems26 once the parameters are merged: only subscribe is
\* looked at, a publish operation of newItem is not.
srv_mergedSubscribe26(withParameters, existing, newItem) ==
    IF "subscribe" \in DOMAIN newItem /\ "message" \in DOMAIN newItem.subscribe
    THEN IF "subscribe" \notin DOMAIN existing
         THEN [subscribe |-> newItem.subscribe] @@ withParameters
         ELSE IF /\ "message" \in DOMAIN existing.subscribe
                 /\ "ref" \notin DOMAIN existing.subscribe.message
                 /\ "ref" \notin DOMAIN newItem.subscribe.message
         THEN [subscribe |->
                  [message |-> mergeMessages26(existing.subscribe.message,
                                               newItem.subscribe.message)]
                  @@ existing.subscribe]
              @@ withParameters
         ELSE withParameters
    ELSE withParameters

mergeChannelItems26(existing, newItem) ==
    srv_mergedSubscribe26(
        Opt("parameters" \in DOMAIN newItem,
            [parameters |-> PutAll(Field(existing, "parameters", <<>>),
                                   Field(newItem, "parameters", <<>>))])
        @@ existing,
        existing, newItem)

RECURSIVE srv_mergedChannels26(_, _)
srv_mergedChannels26(channelMap, entries) ==
    IF entries = <<>> THEN channelMap
    ELSE srv_mergedChannels26(
            Put(channelMap, Head(entries)[1],
                IF HasKey(channelMap, Head(entries)[1])
                THEN mergeChannelItems26(Get(channelMap, Head(entries)[1]), Head(entries)[2])
                ELSE Head(entries)[2]),
            Tail(entries))

\* components.messages of newDoc is not read. newDoc is a generated or a
\* merged document and has channels.
mergeAsyncAPI26(existing, newDoc) ==
    [channels |-> srv_mergedChannels26(Field(existing, "channels", <<>>), newDoc.channels),
     components |->
        [schemas |-> MergedSchemas(Component(existing, "schemas", EmptyMap),
                                   Component(newDoc, "schemas", EmptyMap)),
         messages |-> Component(existing, "messages", <<>>)]]
    @@ existing

\* The channel item `existing` as mergeChannelItems26 leaves it.
\* merged = { ...existing } copies the fields, so merged.subscribe is the
\* object existing.subscribe and the assignment to merged.subscribe.message
\* is a write to it; merged.parameters and a subscribe taken from newItem
\* are assigned to fields of the copy.
srv_itemAfter26(existing, newItem) ==
    IF /\ "subscribe" \in DOMAIN newItem /\ "message" \in DOMAIN newItem.subscribe
       /\ "subscribe" \in DOMAIN existing
       /\ "message" \in DOMAIN existing.subscribe
       /\ "ref" \notin DOMAIN existing.subscribe.message
       /\ "ref" \notin DOMAIN newItem.subscribe.message
    THEN [subscribe |->
             [message |-> mergeMessages26(existing.subscribe.message,
                                          newItem.subscribe.message)]
             @@ existing.subscribe]
         @@ existing
    ELSE existing

\* The channel items of `existing` after the loop over newDoc.channels:
\* { ...existing.channels } is a new map of the same channel items, and
\* merged.channels[topic] of a topic both documents have is the item of
\* `existing`.
RECURSIVE srv_channelsAfter26(_, _)
srv_channelsAfter26(channelMap, entries) ==
    IF entries = <<>> THEN channelMap
    ELSE srv_channelsAfter26(
            IF HasKey(channelMap, Head(entries)[1])
            THEN Put(channelMap, Head(entries)[1],
                     srv_itemAfter26(Get(channelMap, Head(entries)[1]), Head(entries)[2]))
            ELSE channelMap,
            Tail(entries))

\* The document `existing` after mergeAsyncAPI26 has returned. The schemas
\* are assigned to the new map merged.components.schemas.
srv_existingAfter26(existing, newDoc) ==
    IF "channels" \in DOMAIN existing
    THEN [channels |-> srv_channelsAfter26(existing.channels, newDoc.channels)] @@ existing
    ELSE existing

\* The document `existing` after mergeAsyncAPI30 has returned: the maps of
\* merged are new, mergeChannels30 and mergeOperations30 assign new maps and
\* a new list to fields of their copies, and nothing is assigned through a
\* reference that was copied.
srv_existingAfter30(existing, newDoc) == existing

\* The document newDoc after either function has returned: its channels,
\* operations, schemas and messages are put into the maps of merged as they
\* are and nothing is assigned to them.
srv_newDocAfter(existing, newDoc) == newDoc

\* The version markers in use that start with '2.'.
Markers2x == {"2.0.0", "2.6.0"}

\* existing.asyncapi.startsWith('2.') throws a TypeError when the existing
\* document has no asyncapi string; only the existing document is asked.
mergeAsyncAPIDocs(existing, newDoc) ==
    IF "asyncapi" \notin DOMAIN existing THEN [threw |-> "TypeError"]
    ELSE IF existing.asyncapi \in Markers2x
    THEN [doc |-> mergeAsyncAPI26(existing, newDoc)]
    ELSE [doc |-> mergeAsyncAPI30(existing, newDoc)]

-----------------------------------------------------------------------------
(* lib/generators and lib/index.ts: generateAsyncAPISpec *)

\* topicToChannelId of the lib generators (the same function in both files).
lib_topicToChannelId(topic) ==
    TrimUnderscores(
        KeepChars(ReplaceChars(topic, {"/"}, "_"),
                  Range(LowerChars) \cup Range(UpperChars) \cup Range(DigitChars) \cup {"_"}))

\* channel.examples?.map(ex => ({ payload: ex }))
LibMessage(channel) ==
    [name |-> channel.schemaRef, contentType |-> "application/json",
     payload |-> Ref(<<"components", "schemas", channel.schemaRef>>),
     examples |-> [i \in 1..Len(channel.examples) |-> [payload |-> channel.examples[i]]]]

lib_buildChannel30(channel, channelId) ==
    LET msgId == channelId \o Message_
    IN  [channelDef |->
            [address |-> channel.topic,
             messages |-> << <<msgId, Ref(<<"components", "messages", msgId>>)>> >>],
         operation |->
            [action |-> "receive",
             channel |-> Ref(<<"channels", channelId>>),
             messages |-> <<Ref(<<"channels", channelId, "messages", msgId>>)>>],
         messages |-> << <<msgId, LibMessage(channel)>> >>]

lib_added30(doc0, channelId, built) ==
    [doc0 EXCEPT
       !.channels = Put(@, channelId, built.channelDef),
       !.operations = Put(@, Subscribe_ \o channelId, built.operation),
       !.components.messages = PutAll(@, built.messages)]

lib_step30(doc0, channel, channelId) ==
    lib_added30(doc0, channelId, lib_buildChannel30(channel, channelId))

RECURSIVE lib_loop30(_, _)
lib_loop30(doc0, chans) ==
    IF chans = <<>> THEN doc0
    ELSE lib_loop30(lib_step30(doc0, Head(chans), lib_topicToChannelId(Head(chans).topic)),
                    Tail(chans))

lib_generateAsyncAPI30(chans, schemaRecord) ==
    [lib_loop30([asyncapi |-> "3.0.0", channels |-> <<>>, operations |-> <<>>,
                 components |-> [schemas |-> <<>>, messages |-> <<>>]], chans)
     EXCEPT !.components.schemas = schemaRecord]

lib_buildChannelItem26(channel) ==
    [subscribe |->
        [operationId |-> Subscribe_ \o lib_topicToChannelId(channel.topic),
         message |-> LibMessage(channel)]]

RECURSIVE lib_loop26(_, _)
lib_loop26(doc0, chans) ==
    IF chans = <<>> THEN doc0
    ELSE lib_loop26([doc0 EXCEPT
                       !.channels = Put(@, Head(chans).topic,
                                        lib_buildChannelItem26(Head(chans)))],
                    Tail(chans))

lib_generateAsyncAPI26(chans, schemaRecord) ==
    [lib_loop26([asyncapi |-> "2.6.0", channels |-> <<>>,
                 components |-> [schemas |-> <<>>, messages |-> <<>>]], chans)
     EXCEPT !.components.schemas = schemaRecord]

lib_generated(result, cfg) ==
    [processed |-> result,
     doc |-> IF cfg.version = "3.0.0"
             THEN lib_generateAsyncAPI30(result.channels, result.schemas)
             ELSE lib_generateAsyncAPI26(result.channels, result.schemas)]

\* The document, with the channels it was generated from.
generateAsyncAPISpec(msgs, cfg) == lib_generated(processMessages(msgs, cfg), cfg)

-----------------------------------------------------------------------------
(* Configuration *)

\* DEFAULT_CONFIG of lib/types.ts; the server starts from the same choices.
\* Of a configuration the model keeps the fields the channel mappers and the
\* generators choose by.
DEFAULT_CONFIG ==
    [version |-> "3.0.0", asyncApiVersion |-> "3.0.0", channelMode |-> "verbose",
     topicSubstitutions |-> <<>>]

-----------------------------------------------------------------------------
(* Inputs of the registry model *)

MaxCalls == 4

A == <<"A">>
B == <<"B">>
A_1 == <<"A", "_", "1">>

PayloadInt == Obj(<< <<"a", Num(1, 0)>> >>)                         \* {"a":1}
PayloadStr == Obj(<< <<"a", Str("x", {})>> >>)                      \* {"a":"x"}
PayloadInts == Obj(<< <<"a", Arr(<<Num(1, 0)>>)>> >>)               \* {"a":[1]}
PayloadStrs == Obj(<< <<"a", Arr(<<Str("x", {})>>)>> >>)            \* {"a":["x"]}
PayloadMixed == Obj(<< <<"a", Arr(<<Num(1, 0), Str("x", {})>>)>> >>) \* {"a":[1,"x"]}
PayloadAB == Obj(<< <<"a", Str("x", {})>>, <<"b", Num(2, 0)>> >>)     \* {"a":"x","b":2}

LibNames == {A, B}
LibFragments ==
    {lib_inferSchema(p, TRUE) :
        p \in {PayloadInt, PayloadStr, PayloadInts, PayloadStrs, PayloadMixed,
               PayloadAB}}

SrvNames == {A, A_1}
SrvFragments ==
    {srv_inferSchema(PayloadInt, FALSE), srv_inferSchema(PayloadInt, TRUE),
     srv_inferSchema(PayloadStr, FALSE), srv_inferSchema(PayloadAB, FALSE)}

-----------------------------------------------------------------------------
(* The registry as a state machine *)

Registry == [schemas |-> schemas, hashToName |-> hashToName]

Logged(entry) == IF Len(log) = 2 THEN <<log[2], entry>> ELSE Append(log, entry)

Call(name, schema, res) ==
    [op |-> "register", name |-> name, schema |-> schema, ret |-> res.ret,
     how |-> res.how, pre |-> schemas, preHashToName |-> hashToName]

\* What the entries were built from: whether every fragment stored or merged
\* into an entry was an object fragment, and the keys required by all of them.
Built(name, schema, res) ==
    CASE res.how = "new" ->
            MapSet(mergedInto, res.ret,
                   [allObjects |-> IsType(schema, "object"),
                    required |-> Range(Required(schema))])
      [] res.how = "merge" ->
            [mergedInto EXCEPT
               ![res.ret].allObjects = @ /\ IsType(schema, "object"),
               ![res.ret].required = @ \cap Range(Required(schema))]
      [] OTHER -> mergedInto

Registered(name, schema, res) ==
    /\ schemas' = res.schemas
    /\ hashToName' = res.hashToName
    /\ log' = Logged(Call(name, schema, res))
    /\ mergedInto' = Built(name, schema, res)
    /\ nCalls' = nCalls + 1
    /\ UNCHANGED <<auxVars, build, messages, config, channels, processed, doc, input>>

Cleared ==
    /\ schemas' = EmptyMap
    /\ hashToName' = EmptyMap
    /\ log' = Logged([op |-> "clear"])
    /\ mergedInto' = EmptyMap
    /\ nCalls' = nCalls + 1
    /\ UNCHANGED <<auxVars, build, messages, config, channels, processed, doc, input>>

LibRegister ==
    /\ build = "static"
    /\ nCalls < MaxCalls
    /\ \E name \in LibNames, schema \in LibFragments :
          Registered(name, schema, lib_register(Registry, name, schema))

LibClear ==
    /\ build = "static"
    /\ nCalls < MaxCalls
    /\ Cleared

SrvRegister ==
    /\ build = "full"
    /\ nCalls < MaxCalls
    /\ \E name \in SrvNames, schema \in SrvFragments :
          Registered(name, schema, srv_register(Registry, name, schema))

SrvClear ==
    /\ build = "full"
    /\ nCalls < MaxCalls
    /\ Cleared

RegistryInit ==
    /\ build \in {"static", "full"}
    /\ schemas = EmptyMap
    /\ hashToName = EmptyMap
    /\ log = <<>>
    /\ mergedInto = EmptyMap
    /\ nCalls = 0

\* projectState of the server and initialState of the static application.
ChannelsIdle ==
    /\ messages = <<>>
    /\ config = DEFAULT_CONFIG
    /\ channels = <<>>
    /\ processed = <<>>
    /\ doc = <<>>
    /\ input = <<>>

\* No merge requested, and the models of the pure functions and of the
\* ChannelManager not started.
MergeIdle == mergeCall = <<>>
HashIdle == hashed = <<>>
DetectIdle == detected = <<>>
ManagerIdle == manager = <<>> /\ added = <<>>
LoopIdle == eventLoop = <<>>
CallIdle == fnCall = <<>>

Init == RegistryInit /\ ChannelsIdle /\ MergeIdle /\ HashIdle /\ DetectIdle /\ ManagerIdle
            /\ LoopIdle /\ CallIdle

Next == LibRegister \/ LibClear \/ SrvRegister \/ SrvClear

Spec == Init /\ [][Next]_vars

-----------------------------------------------------------------------------
(* Properties of the registries *)

Last == log[Len(log)]
Count(registry, name) == IF name \in DOMAIN registry THEN registry[name].usageCount ELSE 0
HashOf(schema) == IF build = "static" THEN lib_hashSchema(schema) ELSE srv_hashSchema(schema)
\* Some entry of the registry holds the content of the fragment.
Holds(registry, schema) ==
    \E n \in DOMAIN registry : HashOf(registry[n].schema) = HashOf(schema)

\* register(A, f) created the entry A and the next call is register(B, f), B # A.
SameContentOtherName ==
    /\ Len(log) = 2
    /\ log[1].op = "register" /\ log[2].op = "register"
    /\ log[1].how = "new" /\ log[1].ret = log[1].name
    /\ log[2].schema = log[1].schema
    /\ log[2].name # log[1].name

\* C1: content wins over the name. In either registry, when register(A, f)
\* created the entry A, a following register(B, f) with another name B and the
\* same fragment returns A, creates no entry and adds one to the usage of A.
C1_ContentOverName ==
    SameContentOtherName =>
        /\ log[2].ret = log[1].name
        /\ DOMAIN schemas = DOMAIN log[2].pre
        /\ schemas[log[1].name].usageCount = log[2].pre[log[1].name].usageCount + 1

C1_Witness == SameContentOtherName /\ log[2].name \notin DOMAIN schemas

\* C2: in the lib registry no two entries hold fragments with the same hash.
C2_OneNamePerHash ==
    build = "static" =>
        \A n1, n2 \in DOMAIN schemas :
            n1 # n2 => lib_hashSchema(schemas[n1].schema) # lib_hashSchema(schemas[n2].schema)

\* The last call was a lib register(n, f) with n taken and the hash of f unmapped.
NameTakenContentNew ==
    /\ build = "static"
    /\ Len(log) > 0
    /\ Last.op = "register"
    /\ Last.name \in DOMAIN Last.pre
    /\ lib_hashSchema(Last.schema) \notin DOMAIN Last.preHashToName

\* The scenario: {"a":1} is the only registration of the entry, then {"a":"x"}.
IntThenStr ==
    /\ NameTakenContentNew
    /\ Last.pre[Last.name] = [name |-> Last.name, usageCount |-> 1,
                              schema |-> lib_inferSchema(PayloadInt, TRUE)]
    /\ Last.schema = lib_inferSchema(PayloadStr, TRUE)

\* C3: generalize in place. A lib register(n, f) with n taken and the hash of
\* f unmapped returns n, adds no entry, replaces the fragment of n by
\* mergeSchemas(old, f) and adds one to its usage; {"a":1} then {"a":"x"} under
\* one name leave one entry, used twice, whose property a is an
\* integer-or-string union.
C3_GeneralizeInPlace ==
    /\ NameTakenContentNew =>
          /\ Last.ret = Last.name
          /\ DOMAIN schemas = DOMAIN Last.pre
          /\ schemas[Last.name].schema =
                lib_mergeSchemas(Last.pre[Last.name].schema, Last.schema)
          /\ schemas[Last.name].usageCount = Last.pre[Last.name].usageCount + 1
          /\ \A n \in DOMAIN schemas \ {Last.name} : schemas[n] = Last.pre[n]
    /\ IntThenStr =>
          /\ schemas[Last.name].usageCount = 2
          /\ Keys(Props(schemas[Last.name].schema)) = <<"a">>
          /\ Get(Props(schemas[Last.name].schema), "a") =
                [type |-> <<"a", "integer", "string">>]

C3_Witness == IntThenStr /\ Cardinality(DOMAIN schemas) = 1

\* C4: no stale hash mapping. In the lib registry every key of hashToName is
\* the hash of the current fragment of the entry it names, and register never
\* returns as an exact-content match a name whose fragment hashed differently
\* from the fragment submitted.
C4_NoStaleHash ==
    build = "static" =>
        /\ \A h \in DOMAIN hashToName :
              lib_hashSchema(schemas[hashToName[h]].schema) = h
        /\ (Len(log) > 0 /\ Last.op = "register" /\ Last.how = "match") =>
              lib_hashSchema(Last.pre[Last.ret].schema) = lib_hashSchema(Last.schema)

\* The last two calls were register(n, f) with the same n and f.
SameCallTwice ==
    /\ Len(log) = 2
    /\ log[1].op = "register" /\ log[2].op = "register"
    /\ log[1].name = log[2].name
    /\ log[1].schema = log[2].schema

\* C5: idempotent registration. Two consecutive register(n, f) calls return
\* the same name, the usage of that entry ends 2 higher than before the first
\* call, and together they add at most one entry, and exactly one when neither
\* the name nor the content was in the registry.
C5_Idempotent ==
    SameCallTwice =>
        /\ log[1].ret = log[2].ret
        /\ schemas[log[2].ret].usageCount = Count(log[1].pre, log[2].ret) + 2
        /\ Cardinality(DOMAIN schemas) <= Cardinality(DOMAIN log[1].pre) + 1
        /\ (log[1].name \notin DOMAIN log[1].pre /\ ~Holds(log[1].pre, log[1].schema)) =>
              Cardinality(DOMAIN schemas) = Cardinality(DOMAIN log[1].pre) + 1

\* C6: required is the intersection. In the lib registry an entry built only
\* from object fragments is an object fragment whose required keys are exactly
\* the keys required by every fragment stored or merged into it.
C6_RequiredIntersection ==
    build = "static" =>
        \A n \in DOMAIN schemas :
            mergedInto[n].allObjects =>
                /\ IsType(schemas[n].schema, "object")
                /\ Range(Required(schemas[n].schema)) = mergedInto[n].required

\* {"a":1} and {"a":"x","b":2} merged: a is required by both, b by one.
C6_Witness ==
    /\ build = "static"
    /\ A \in DOMAIN schemas
    /\ Keys(Props(schemas[A].schema)) = <<"a", "b">>
    /\ Required(schemas[A].schema) = <<"a">>
    /\ mergedInto[A].required = {"a"}

-----------------------------------------------------------------------------
(* Inputs of the channel models *)

MaxMessages == 3
MaxBrowserMessages == 3

Line1Temp == <<"l", "i", "n", "e", "/", "1", "/", "t", "e", "m", "p">>
Line2Temp == <<"l", "i", "n", "e", "/", "2", "/", "t", "e", "m", "p">>
SlashAB == <<"a", "/", "b">>
DashAB == <<"a", "-", "b">>

Message(topic, payload, modelName) ==
    [topic |-> topic, payload |-> payload, modelName |-> modelName]

\* modelName <<>>: the record has none.
Messages ==
    {Message(Line1Temp, PayloadInt, <<>>),
     Message(Line2Temp, PayloadStr, <<"M">>),
     Message(SlashAB, PayloadInt, <<>>),
     Message(DashAB, PayloadStr, <<>>)}

\* The uploads of the static application: the records of the line topics, and
\* a second payload shape on line/1/temp.
BrowserMessages ==
    {Message(Line1Temp, PayloadInt, <<>>),
     Message(Line1Temp, PayloadStr, <<>>),
     Message(Line2Temp, PayloadStr, <<"M">>)}

LineId == <<"l", "i", "n", "e", "I", "d">>
Id == <<"i", "d">>

\* The rule of the scenario: every value of level 1 becomes {lineId}.
RuleLine == [levelIndex |-> 1, parameterName |-> LineId]
\* Listed values, with a description.
RuleValues ==
    [levelIndex |-> 1, parameterName |-> Id, description |-> <<"d">>,
     values |-> << <<"1">> >>]
\* A pattern.
RuleDigits == [levelIndex |-> 1, parameterName |-> Id, pattern |-> AnchoredDigits]
\* A level before the first one and a level no topic has.
RuleBefore == [levelIndex |-> -1, parameterName |-> <<"n">>]
RuleFar == [levelIndex |-> 5, parameterName |-> <<"f">>]
\* A suggestion of detectParameters in the static application.
RuleSuggested ==
    [pattern |-> DigitRun, replacement |-> Placeholder(Id), description |-> <<"d">>]

\* A rule whose pattern is no regular expression.
RuleBroken ==
    [levelIndex |-> 1, parameterName |-> Id, pattern |-> InvalidPattern,
     replacement |-> Placeholder(Id)]

RuleLists ==
    {<<>>, <<RuleLine>>, <<RuleValues>>, <<RuleDigits, RuleLine>>,
     <<RuleBefore, RuleFar, RuleSuggested>>}

\* updateConfig keeps version equal to asyncApiVersion.
Configs ==
    {[version |-> v, asyncApiVersion |-> v, channelMode |-> mode, topicSubstitutions |-> rules] :
        v \in {"3.0.0", "2.6.0"}, mode \in {"verbose", "parameterized"}, rules \in RuleLists}

\* Configurations with a rule list that starts with the broken rule.
BrokenConfigs ==
    {[version |-> v, asyncApiVersion |-> v, channelMode |-> mode,
      topicSubstitutions |-> <<RuleBroken, RuleLine, RuleSuggested>>] :
        v \in {"3.0.0", "2.6.0"}, mode \in {"verbose", "parameterized"}}

-----------------------------------------------------------------------------
(* The server as a state machine: server/index.ts *)

\* regenerateSpec, the assignments once the document is generated.
Stored(msgs, cfg, built, generated) ==
    /\ channels' = built
    /\ doc' = generated.doc
    /\ schemas' = generated.registry.schemas
    /\ hashToName' = generated.registry.hashToName
    /\ input' = [messages |-> msgs, config |-> cfg]

\* A regeneration that goes on with the registry of the one before.
Generated_keepRegistry(msgs, cfg, built) ==
    Stored(msgs, cfg, built, generateAsyncAPIFromChannels(built, Registry, cfg))

Generated(msgs, cfg, built) ==
    Stored(msgs, cfg, built, generateAsyncAPIFromChannels(built, NewRegistry, cfg))

\* regenerateSpec left by the SyntaxError of buildChannels: the registry is
\* reset, generatedSpec is the one of before. The upload handler catches the
\* error and answers 400, Express answers the configuration request with 500.
Thrown ==
    /\ schemas' = EmptyMap
    /\ hashToName' = EmptyMap
    /\ UNCHANGED <<channels, doc, input>>

\* regenerateSpec with messages msgs and configuration cfg, msgs non-empty.
\* resetSchemaRegistry makes the global registry a new one.
Regenerated(msgs, cfg) ==
    IF buildChannelsThrows(msgs, cfg) THEN Thrown
    ELSE Generated(msgs, cfg, buildChannels(msgs, cfg))

\* POST /api/upload/json
Uploaded(message) ==
    /\ build = "full"
    /\ messages' = Append(messages, message)
    /\ Regenerated(Append(messages, message), config)
    /\ UNCHANGED <<auxVars, build, config, processed, log, mergedInto, nCalls>>

UploadJson ==
    /\ Len(messages) < MaxMessages
    /\ \E message \in Messages : Uploaded(message)

\* POST /api/config
Configured(body) ==
    /\ build = "full"
    /\ config' = body
    /\ IF Len(messages) > 0
       THEN Regenerated(messages, body)
       ELSE UNCHANGED <<channels, doc, schemas, hashToName, input>>
    /\ UNCHANGED <<auxVars, build, messages, processed, log, mergedInto, nCalls>>

PostConfig == \E body \in Configs : Configured(body)

\* A clear that keeps generatedSpec.
PostClear_keepsSpec ==
    /\ build = "full"
    /\ messages' = <<>>
    /\ schemas' = EmptyMap
    /\ hashToName' = EmptyMap
    /\ channels' = <<>>
    /\ input' = <<>>
    /\ UNCHANGED <<auxVars, build, config, processed, log, mergedInto, nCalls, doc>>

\* POST /api/clear
PostClear ==
    /\ build = "full"
    /\ messages' = <<>>
    /\ doc' = <<>>
    /\ schemas' = EmptyMap
    /\ hashToName' = EmptyMap
    /\ channels' = <<>>
    /\ input' = <<>>
    /\ UNCHANGED <<auxVars, build, config, processed, log, mergedInto, nCalls>>

ServerInit == Init /\ build = "full"

ServerNext == UploadJson \/ PostConfig \/ PostClear

SpecServer == ServerInit /\ [][ServerNext]_vars

-----------------------------------------------------------------------------
(* The server's POST /api/merge, with uploads and configurations that give  *)
(* the merge its cases                                                      *)

MaxMergeMessages == 2
MaxMerges == 2

MergeMessages ==
    {Message(Line1Temp, PayloadInt, <<>>), Message(Line2Temp, PayloadStr, <<"M">>)}

Version(v) == [DEFAULT_CONFIG EXCEPT !.version = v, !.asyncApiVersion = v]

MergeConfigs ==
    {Version("3.0.0"), Version("2.6.0"),
     [Version("3.0.0") EXCEPT !.channelMode = "parameterized",
                              !.topicSubstitutions = <<RuleLine>>]}

ServerDocument(msgs, cfg) ==
    generateAsyncAPIFromChannels(buildChannels(msgs, cfg), NewRegistry, cfg).doc

\* A 2.6 document written by hand: a component message, no channels.
HandWritten26 ==
    [asyncapi |-> "2.6.0",
     components |-> [messages |-> << <<B, buildMessage26(B)>> >>]]

\* A document without a version marker.
Unmarked == [channels |-> <<>>]

\* The bodies of POST /api/merge: documents this server and the static
\* application have generated for line/1/temp, in both dialects, and the two
\* documents above.
ExistingSpecs ==
    {ServerDocument(<<Message(Line1Temp, PayloadInt, <<"M">>)>>, Version("3.0.0")),
     ServerDocument(<<Message(Line1Temp, PayloadInt, <<"M">>)>>, Version("2.6.0")),
     generateAsyncAPISpec(<<Message(Line1Temp, PayloadInt, <<>>)>>, Version("2.6.0")).doc,
     generateAsyncAPISpec(<<Message(Line2Temp, PayloadStr, <<>>),
                            Message(Line1Temp, PayloadStr, <<>>)>>, Version("2.6.0")).doc,
     HandWritten26, Unmarked}

MergeCount == IF mergeCall = <<>> THEN 0 ELSE mergeCall.n

\* The handler once mergeAsyncAPIDocs has returned or thrown: a throw is
\* caught, answered with 400 and leaves generatedSpec as it was.
MergeAnswered(existingSpec, outcome) ==
    /\ doc' = IF "doc" \in DOMAIN outcome THEN outcome.doc ELSE doc
    /\ mergeCall' = [n |-> MergeCount + 1, existing |-> existingSpec,
                     incoming |-> doc, outcome |-> outcome]

\* POST /api/merge; without a generated document the answer is 400.
PostMerge ==
    /\ build = "full"
    /\ doc # <<>>
    /\ MergeCount < MaxMerges
    /\ \E existingSpec \in ExistingSpecs :
          MergeAnswered(existingSpec, mergeAsyncAPIDocs(existingSpec, doc))
    /\ UNCHANGED <<build, schemas, hashToName, log, mergedInto, nCalls,
                   messages, config, channels, processed, input,
                   hashed, detected, manager, added, eventLoop, fnCall>>

MergeUploadJson ==
    /\ Len(messages) < MaxMergeMessages
    /\ \E message \in MergeMessages : Uploaded(message)

MergePostConfig == \E body \in MergeConfigs : Configured(body)

MergeNext == MergeUploadJson \/ MergePostConfig \/ PostClear \/ PostMerge

SpecMerge == ServerInit /\ [][MergeNext]_vars

-----------------------------------------------------------------------------
(* The server with configurations that have a broken rule *)

MaxRulesMessages == 2

RulesMessages ==
    {Message(Line1Temp, PayloadInt, <<>>), Message(Line2Temp, PayloadStr, <<"M">>),
     Message(DashAB, PayloadStr, <<>>)}

RulesUploadJson ==
    /\ Len(messages) < MaxRulesMessages
    /\ \E message \in RulesMessages : Uploaded(message)

RulesPostConfig == \E body \in BrokenConfigs \cup {DEFAULT_CONFIG} : Configured(body)

RulesNext == RulesUploadJson \/ RulesPostConfig \/ PostClear

SpecRules == ServerInit /\ [][RulesNext]_vars

-----------------------------------------------------------------------------
(* The static application as a state machine: client App (static) *)

uploadJson ==
    /\ build = "static"
    /\ Len(messages) < MaxBrowserMessages
    /\ \E message \in BrowserMessages : messages' = Append(messages, message)
    /\ UNCHANGED <<auxVars, build, config, channels, processed, doc, input,
                   schemas, hashToName, log, mergedInto, nCalls>>

updateConfig ==
    /\ build = "static"
    /\ \E updated \in Configs \cup BrokenConfigs : config' = updated
    /\ UNCHANGED <<auxVars, build, messages, channels, processed, doc, input,
                   schemas, hashToName, log, mergedInto, nCalls>>

\* generateSpec, the state update once the document is generated.
Shown(generated) ==
    /\ processed' = generated.processed
    /\ doc' = generated.doc

generateSpec ==
    /\ build = "static"
    /\ Len(messages) > 0
    /\ Shown(generateAsyncAPISpec(messages, config))
    /\ input' = [messages |-> messages, config |-> config]
    /\ UNCHANGED <<auxVars, build, messages, config, channels,
                   schemas, hashToName, log, mergedInto, nCalls>>

clearMessages ==
    /\ build = "static"
    /\ messages' = <<>>
    /\ doc' = <<>>
    /\ processed' = <<>>
    /\ input' = <<>>
    /\ UNCHANGED <<auxVars, build, config, channels,
                   schemas, hashToName, log, mergedInto, nCalls>>

BrowserInit == Init /\ build = "static"

BrowserNext == uploadJson \/ updateConfig \/ generateSpec \/ clearMessages

SpecBrowser == BrowserInit /\ [][BrowserNext]_vars

-----------------------------------------------------------------------------
(* hashSchema over a fragment and its rewritings *)

MaxRewrites == 2

NestedPayload ==                                \* {"a":{"a":"x","b":2},"b":[{"a":"x","b":2}]}
    Obj(<< <<"a", PayloadAB>>, <<"b", Arr(<<PayloadAB>>)>> >>)

HashFragments ==
    {lib_inferSchema(p, TRUE) : p \in {PayloadAB, NestedPayload}}
        \cup {srv_inferSchema(p, TRUE) : p \in {PayloadAB, NestedPayload}}

\* Places in a fragment: the way down from the root, i for the i-th property
\* and 0 for items.
Places == {<<>>, <<1>>, <<2>>, <<1, 1>>, <<2, 0>>, <<2, 0, 2>>}

Rotated(list) == IF list = <<>> THEN <<>> ELSE Tail(list) \o <<Head(list)>>

\* One rewriting of the fragment itself.
Rewritten(schema, how) ==
    CASE how = "properties" ->
            IF "properties" \in DOMAIN schema
            THEN [schema EXCEPT !.properties = Rotated(@)] ELSE schema
      [] how = "required" ->
            IF "required" \in DOMAIN schema
            THEN [schema EXCEPT !.required = Rotated(@)] ELSE schema
      [] how = "no examples" -> [key \in DOMAIN schema \ {"examples"} |-> schema[key]]
      [] how = "examples" -> [examples |-> <<Str("y", {})>>] @@ schema

\* The rewriting done at a place, where the fragment has that place.
RECURSIVE RewrittenAt(_, _, _)
RewrittenAt(schema, place, how) ==
    IF place = <<>> THEN Rewritten(schema, how)
    ELSE IF Head(place) = 0
    THEN IF HasItems(schema)
         THEN [schema EXCEPT !.items = RewrittenAt(@, Tail(place), how)]
         ELSE schema
    ELSE IF Head(place) <= Len(Props(schema))
    THEN [schema EXCEPT
            !.properties[Head(place)][2] = RewrittenAt(@, Tail(place), how)]
    ELSE schema

Rewrite(how) ==
    /\ hashed # <<>>
    /\ hashed.rewrites < MaxRewrites
    /\ \E place \in Places :
          hashed' = [hashed EXCEPT !.variant = RewrittenAt(@, place, how),
                                   !.rewrites = @ + 1]
    /\ UNCHANGED <<build, schemas, hashToName, log, mergedInto, nCalls,
                   messages, config, channels, processed, doc, input,
                   mergeCall, detected, manager, added, eventLoop, fnCall>>

ReorderProperties == Rewrite("properties")
ReorderRequired == Rewrite("required")
ChangeExamples == Rewrite("no examples") \/ Rewrite("examples")

HashInit ==
    /\ RegistryInit /\ build = "static"
    /\ ChannelsIdle /\ MergeIdle /\ DetectIdle /\ ManagerIdle /\ LoopIdle /\ CallIdle
    /\ hashed \in {[schema |-> f, variant |-> f, rewrites |-> 0] : f \in HashFragments}

HashNext == ReorderProperties \/ ReorderRequired \/ ChangeExamples

SpecHash == HashInit /\ [][HashNext]_vars

-----------------------------------------------------------------------------
(* server/channels/mapper: detectParameters *)

DefaultMinVariants == 2

HexLetters == {"a", "b", "c", "d", "e", "f", "A", "B", "C", "D", "E", "F"}
IsHex(c) == IsDigit(c) \/ c \in HexLetters
UuidLength == 36
UuidHyphens == {9, 14, 19, 24}

\* /^[0-9a-f]{8}-[0-9a-f]{4}-[0-9a-f]{4}-[0-9a-f]{4}-[0-9a-f]{12}$/i.test(v)
IsUuid(v) ==
    /\ Len(v) = UuidLength
    /\ \A i \in 1..Len(v) : IF i \in UuidHyphens THEN v[i] = "-" ELSE IsHex(v[i])

\* /^\d+$/.test(v)
IsNumeric(v) == v # <<>> /\ AllDigits(v)

\* v.toLowerCase().includes(word)
IncludesLower(v, word) ==
    \E i \in 0..(Len(v) - Len(word)) :
        \A k \in 1..Len(word) : toLowerCase(v[i + k]) = word[k]

WordMachine == <<"m", "a", "c", "h", "i", "n", "e">>
WordArea == <<"a", "r", "e", "a">>
WordLine == <<"l", "i", "n", "e">>
NameUuid == <<"u", "u", "i", "d">>
NameMachineId == WordMachine \o <<"I", "d">>
NameAreaId == WordArea \o <<"I", "d">>
NameParam(level) == <<"p", "a", "r", "a", "m">> \o ToString10(level)

inferParameterName(values, level) ==
    IF \A i \in 1..Len(values) : IsUuid(values[i]) THEN NameUuid
    ELSE IF \A i \in 1..Len(values) : IsNumeric(values[i]) THEN Id
    ELSE IF \E i \in 1..Len(values) : IncludesLower(values[i], WordMachine)
    THEN NameMachineId
    ELSE IF \E i \in 1..Len(values) : IncludesLower(values[i], WordArea)
    THEN NameAreaId
    ELSE IF \E i \in 1..Len(values) : IncludesLower(values[i], WordLine)
    THEN LineId
    ELSE NameParam(level)

\* segmentsByLevel.get(level), as Array.from gives it: the segments the
\* topics have at the level, each once, in the order of the first arrival.
RECURSIVE SegmentsSeen(_, _)
SegmentsSeen(msgs, level) ==
    IF msgs = <<>> THEN <<>>
    ELSE LET parts == Split(Head(msgs).topic, {"/"})
         IN  (IF level < Len(parts) THEN <<parts[level + 1]>> ELSE <<>>)
                 \o SegmentsSeen(Tail(msgs), level)
segmentsByLevel(msgs, level) == Dedupe(SegmentsSeen(msgs, level))

\* The levels segmentsByLevel has keys for: 0 .. longest topic - 1.
RECURSIVE LevelCount(_)
LevelCount(msgs) ==
    IF msgs = <<>> THEN 0
    ELSE LET n == Len(Split(Head(msgs).topic, {"/"}))
             rest == LevelCount(Tail(msgs))
         IN  IF n > rest THEN n ELSE rest

Suggestion(level, values) ==
    [levelIndex |-> level,
     parameterName |-> inferParameterName(values, level),
     values |-> values,
     description |-> [level |-> level, variants |-> Len(values)]]

\* The levels in the order of the Map: 0, 1, ...
Levels(msgs) == [i \in 1..LevelCount(msgs) |-> i - 1]

SuggestionsAt(msgs, levels) ==
    [i \in 1..Len(levels) |-> Suggestion(levels[i], segmentsByLevel(msgs, levels[i]))]

\* A detection that asks for more than minVariants segments.
detectParameters_moreThan(msgs, minVariants) ==
    SuggestionsAt(msgs,
        SelectSeq(Levels(msgs),
                  LAMBDA level : Len(segmentsByLevel(msgs, level)) > minVariants))

detectParameters(msgs, minVariants) ==
    SuggestionsAt(msgs,
        SelectSeq(Levels(msgs),
                  LAMBDA level : Len(segmentsByLevel(msgs, level)) >= minVariants))

(* The server with the detection of parameters *)

MaxTopics == 3

Zeros(n) == [i \in 1..n |-> "0"]
Uuid(last) ==
    Zeros(8) \o <<"-">> \o Zeros(4) \o <<"-">> \o Zeros(4) \o <<"-">> \o Zeros(4)
        \o <<"-">> \o Zeros(11) \o <<last>>
UuidTopic(last) == <<"m", "/">> \o Uuid(last) \o <<"/", "t">>
MachineArea == <<"M", "a", "c", "h", "i", "n", "e", "/", "A", "R", "E", "A">>

DetectMessages ==
    {Message(UuidTopic("a"), PayloadInt, <<>>),
     Message(UuidTopic("B"), PayloadInt, <<>>),
     Message(Line1Temp, PayloadInt, <<>>),
     Message(Line2Temp, PayloadInt, <<>>),
     Message(MachineArea, PayloadInt, <<>>)}

DetectUploadJson ==
    /\ Len(messages) < MaxTopics
    /\ \E message \in DetectMessages : Uploaded(message)

Detected(minVariants) ==
    /\ build = "full"
    /\ detected' = [messages |-> messages, minVariants |-> minVariants,
                    suggestions |-> detectParameters(messages, minVariants)]
    /\ UNCHANGED <<build, schemas, hashToName, log, mergedInto, nCalls,
                   messages, config, channels, processed, doc, input,
                   mergeCall, hashed, manager, added, eventLoop, fnCall>>

\* POST /api/detect-parameters
PostDetectParameters == Detected(DefaultMinVariants)

\* detectParameters called with a minVariants of the caller
CallDetectParameters == \E minVariants \in {1, 3} : Detected(minVariants)

DetectNext == DetectUploadJson \/ PostDetectParameters \/ CallDetectParameters

SpecDetect == ServerInit /\ [][DetectNext]_vars

-----------------------------------------------------------------------------
(* lib/channel-mapper: the class ChannelManager *)

\* new ChannelManager(cfg)
NewChannelManager(cfg) ==
    [config |-> cfg, channels |-> <<>>, schemaRegistry |-> NewRegistry]

\* The manager after the round of addMessage, which is the round of the loop
\* of processMessages on the manager's own map and registry.
ManagerAfter(mgr, done) ==
    [config |-> mgr.config, channels |-> done.channelMap, schemaRegistry |-> done.registry]

\* An addMessage that registers in a registry of its own.
addMessage_ownRegistry(mgr, message) ==
    ManagerAfter(mgr,
        lib_processMessage([registry |-> NewRegistry, channelMap |-> mgr.channels],
                           message, mgr.config))

addMessage(mgr, message) ==
    ManagerAfter(mgr,
        lib_processMessage([registry |-> mgr.schemaRegistry, channelMap |-> mgr.channels],
                           message, mgr.config))

\* manager.clear()
ManagerCleared(mgr) ==
    [config |-> mgr.config, channels |-> <<>>, schemaRegistry |-> NewRegistry]

getChannels(mgr) == Values(mgr.channels)
getSchemas(mgr) == toRecord(mgr.schemaRegistry)

MaxManagerCalls == 6

ManagerConfigs ==
    {DEFAULT_CONFIG,
     [version |-> "3.0.0", asyncApiVersion |-> "3.0.0", channelMode |-> "parameterized",
      topicSubstitutions |-> <<RuleLine>>]}

ManagerAddMessage ==
    /\ manager # <<>>
    /\ Len(added) < MaxManagerCalls
    /\ \E message \in BrowserMessages :
          /\ manager' = addMessage(manager, message)
          /\ added' = Append(added, [op |-> "addMessage", message |-> message])
    /\ UNCHANGED <<build, schemas, hashToName, log, mergedInto, nCalls,
                   messages, config, channels, processed, doc, input,
                   mergeCall, hashed, detected, eventLoop, fnCall>>

ManagerClear ==
    /\ manager # <<>>
    /\ Len(added) < MaxManagerCalls
    /\ manager' = ManagerCleared(manager)
    /\ added' = Append(added, [op |-> "clear"])
    /\ UNCHANGED <<build, schemas, hashToName, log, mergedInto, nCalls,
                   messages, config, channels, processed, doc, input,
                   mergeCall, hashed, detected, eventLoop, fnCall>>

ManagerInit ==
    /\ RegistryInit /\ build = "static"
    /\ ChannelsIdle /\ MergeIdle /\ HashIdle /\ DetectIdle /\ LoopIdle /\ CallIdle
    /\ manager \in {NewChannelManager(cfg) : cfg \in ManagerConfigs}
    /\ added = <<>>

ManagerNext == ManagerAddMessage \/ ManagerClear

SpecManager == ManagerInit /\ [][ManagerNext]_vars

-----------------------------------------------------------------------------
(* The server on Node's event loop: regenerateSpec step by step *)

MaxLoopMessages == 2

LoopMessages ==
    {Message(Line1Temp, PayloadInt, <<>>), Message(Line2Temp, PayloadStr, <<"M">>)}

\* The event loop gives the next request, socket message or MQTT message to
\* its handler when the call stack is empty: regenerateSpec and the functions
\* it calls are synchronous, none of them awaits.
Dispatchable_yielding(stack) == TRUE

Dispatchable(stack) == stack = <<>>

\* The document and the registry a generator starts its loop with.
srv_begin(registry, cfg) ==
    IF cfg.asyncApiVersion = "2.6.0"
    THEN [doc |-> [asyncapi |-> "2.6.0", channels |-> <<>>,
                   components |-> [schemas |-> <<>>, messages |-> <<>>]],
          registry |-> registry]
    ELSE [doc |-> [asyncapi |-> "3.0.0", channels |-> <<>>, operations |-> <<>>,
                   components |-> [schemas |-> <<>>, messages |-> <<>>]],
          registry |-> registry]

\* One round of the loop of the generator of the configured version.
srv_step(state, channel, cfg) ==
    IF cfg.asyncApiVersion = "2.6.0"
    THEN srv_step26(state, channel) ELSE srv_step30(state, channel)

\* regenerateSpec up to the loop of the generator: the registry is reset, the
\* channels are built from projectState.messages as it is now.
Activation(msgs, cfg, built) ==
    [messages |-> msgs, config |-> cfg, built |-> built, todo |-> built,
     state |-> srv_begin(NewRegistry, cfg)]

Begun(msgs, cfg) ==
    /\ eventLoop' = [eventLoop EXCEPT
                        !.stack = Append(@, Activation(msgs, cfg, buildChannels(msgs, cfg)))]
    /\ schemas' = EmptyMap
    /\ hashToName' = EmptyMap
    /\ UNCHANGED <<channels, doc, input>>

\* regenerateSpec called by a handler.
LoopRegenerated(msgs, cfg) ==
    IF msgs = <<>>
    THEN /\ doc' = <<>>
         /\ UNCHANGED <<eventLoop, schemas, hashToName, channels, input>>
    ELSE Begun(msgs, cfg)

LoopFrame ==
    UNCHANGED <<build, processed, log, mergedInto, nCalls,
                mergeCall, hashed, detected, manager, added, fnCall>>

\* POST /api/upload/json
LoopUploadJson ==
    /\ Dispatchable(eventLoop.stack)
    /\ Len(messages) < MaxLoopMessages
    /\ \E message \in LoopMessages :
          /\ messages' = Append(messages, message)
          /\ LoopRegenerated(Append(messages, message), config)
    /\ UNCHANGED config
    /\ LoopFrame

\* POST /api/config
LoopPostConfig ==
    /\ Dispatchable(eventLoop.stack)
    /\ \E body \in MergeConfigs :
          /\ config' = body
          /\ IF Len(messages) > 0 THEN LoopRegenerated(messages, body)
             ELSE UNCHANGED <<eventLoop, schemas, hashToName, channels, doc, input>>
    /\ UNCHANGED messages
    /\ LoopFrame

\* The socket message 'generate'
LoopSocketGenerate ==
    /\ Dispatchable(eventLoop.stack)
    /\ LoopRegenerated(messages, config)
    /\ UNCHANGED <<messages, config>>
    /\ LoopFrame

\* mqttListener.on('message'): the record is pushed, nothing is regenerated.
LoopMqttMessage ==
    /\ Dispatchable(eventLoop.stack)
    /\ Len(messages) < MaxLoopMessages
    /\ \E message \in LoopMessages : messages' = Append(messages, message)
    /\ UNCHANGED <<config, eventLoop, schemas, hashToName, channels, doc, input>>
    /\ LoopFrame

\* The round of the generator's loop for the next channel of a regeneration
\* that has begun: its register calls. The global registry is the one of the
\* regeneration that began last.
LoopRegisterChannel ==
    /\ \E i \in 1..Len(eventLoop.stack) :
          LET activation == eventLoop.stack[i]
              stepped == srv_step(activation.state, Head(activation.todo), activation.config)
          IN  /\ activation.todo # <<>>
              /\ eventLoop' = [eventLoop EXCEPT
                                  !.stack[i].state = stepped,
                                  !.stack[i].todo = Tail(@)]
              /\ IF i = Len(eventLoop.stack)
                 THEN /\ schemas' = stepped.registry.schemas
                      /\ hashToName' = stepped.registry.hashToName
                 ELSE UNCHANGED <<schemas, hashToName>>
    /\ UNCHANGED <<messages, config, channels, doc, input>>
    /\ LoopFrame

\* The generator returns and regenerateSpec assigns generatedSpec.
LoopReturn ==
    /\ \E i \in 1..Len(eventLoop.stack) :
          LET activation == eventLoop.stack[i]
          IN  /\ activation.todo = <<>>
              /\ eventLoop' = [eventLoop EXCEPT
                                  !.stack = SubSeq(@, 1, i - 1) \o SubSeq(@, i + 1, Len(@)),
                                  !.returned = activation]
              /\ doc' = WithServers(WithSchemas(activation.state),
                                    IF activation.config.asyncApiVersion = "2.6.0"
                                    THEN buildServers26(activation.config)
                                    ELSE buildServers30(activation.config)).doc
              /\ channels' = activation.built
              /\ input' = [messages |-> activation.messages, config |-> activation.config]
    /\ UNCHANGED <<messages, config, schemas, hashToName>>
    /\ LoopFrame

LoopInit ==
    /\ RegistryInit /\ build = "full"
    /\ ChannelsIdle /\ MergeIdle /\ HashIdle /\ DetectIdle /\ ManagerIdle /\ CallIdle
    /\ eventLoop = [stack |-> <<>>, returned |-> <<>>]

LoopNext ==
    \/ LoopUploadJson \/ LoopPostConfig \/ LoopSocketGenerate \/ LoopMqttMessage
    \/ LoopRegisterChannel \/ LoopReturn

SpecLoop == LoopInit /\ [][LoopNext]_vars

-----------------------------------------------------------------------------
(* applySubstitutions applied to a topic, rule lists growing by one rule *)

MaxRules == 3

\* A rule of level 0 with listed values.
RuleZero == [levelIndex |-> 0, parameterName |-> <<"z">>, values |-> << <<"a">>, <<"b">> >>]
\* A rule before the first level with a pattern.
RuleBeforeDigits == [levelIndex |-> -1, parameterName |-> <<"n">>, pattern |-> DigitRun]

SubstituteTopics == {Line1Temp, SlashAB, DashAB}
SubstituteRules ==
    {RuleLine, RuleValues, RuleDigits, RuleBefore, RuleBeforeDigits, RuleFar, RuleZero}

\* applySubstitutions(topic, substitutions) called; before is what it returns
\* for the list without its last rule.
Substituted(topic, substitutions, before) ==
    /\ fnCall' = [fn |-> "applySubstitutions", topic |-> topic,
                  substitutions |-> substitutions, before |-> before,
                  result |-> applySubstitutions(topic, substitutions)]
    /\ UNCHANGED <<build, schemas, hashToName, log, mergedInto, nCalls,
                   messages, config, channels, processed, doc, input,
                   mergeCall, hashed, detected, manager, added, eventLoop>>

SubstituteWithRule ==
    /\ fnCall # <<>>
    /\ Len(fnCall.substitutions) < MaxRules
    /\ \E sub \in SubstituteRules :
          Substituted(fnCall.topic, Append(fnCall.substitutions, sub), fnCall.result)

SubstituteInit ==
    /\ RegistryInit /\ build = "full"
    /\ ChannelsIdle /\ MergeIdle /\ HashIdle /\ DetectIdle /\ ManagerIdle /\ LoopIdle
    /\ fnCall \in {[fn |-> "applySubstitutions", topic |-> topic, substitutions |-> <<>>,
                    before |-> applySubstitutions(topic, <<>>),
                    result |-> applySubstitutions(topic, <<>>)] : topic \in SubstituteTopics}

SubstituteNext == SubstituteWithRule

SpecSubstitute == SubstituteInit /\ [][SubstituteNext]_vars

-----------------------------------------------------------------------------
(* mergeSchemas applied to inferred fragments, the result merged again *)

MaxSchemaMerges == 2

SchemaValues ==
    {Num(1, 0), Num(1, 5), Str("x", {}), Str("t", {"iso-date-time"}), Str("u", {"uuid"}),
     Bool(TRUE), PayloadInt, PayloadAB, Arr(<<Num(1, 0)>>)}

inferSchemaOf(impl, value) ==
    IF impl = "lib" THEN lib_inferSchema(value, FALSE) ELSE srv_inferSchema(value, FALSE)

mergeSchemasOf(impl, schema1, schema2) ==
    IF impl = "lib" THEN lib_mergeSchemas(schema1, schema2)
    ELSE srv_mergeSchemas(schema1, schema2)

hashSchemaOf(impl, schema) ==
    IF impl = "lib" THEN lib_hashSchema(schema) ELSE srv_hashSchema(schema)

\* mergeSchemas(schema1, schema2) called, and mergeSchemas(schema2, schema1).
SchemasMerged(impl, schema1, schema2, merges) ==
    /\ fnCall' = [fn |-> "mergeSchemas", impl |-> impl, merges |-> merges,
                  schema1 |-> schema1, schema2 |-> schema2,
                  result |-> mergeSchemasOf(impl, schema1, schema2),
                  reverse |-> mergeSchemasOf(impl, schema2, schema1)]
    /\ UNCHANGED <<build, schemas, hashToName, log, mergedInto, nCalls,
                   messages, config, channels, processed, doc, input,
                   mergeCall, hashed, detected, manager, added, eventLoop>>

\* The fragment merged so far is merged with the fragment of one more value.
MergeSchemas ==
    /\ fnCall # <<>>
    /\ fnCall.merges < MaxSchemaMerges
    /\ \E value \in SchemaValues :
          SchemasMerged(fnCall.impl, fnCall.result, inferSchemaOf(fnCall.impl, value),
                        fnCall.merges + 1)

SchemasInit ==
    /\ RegistryInit
    /\ ChannelsIdle /\ MergeIdle /\ HashIdle /\ DetectIdle /\ ManagerIdle /\ LoopIdle
    /\ \E impl \in {"lib", "srv"}, value \in SchemaValues :
          /\ build = (IF impl = "lib" THEN "static" ELSE "full")
          /\ fnCall = [fn |-> "mergeSchemas", impl |-> impl, merges |-> 0,
                       result |-> inferSchemaOf(impl, value)]

SchemasNext == MergeSchemas

SpecSchemas == SchemasInit /\ [][SchemasNext]_vars

-----------------------------------------------------------------------------
(* The server with all the handlers that write projectState *)

MaxStateMessages == 2
MaxSubstitutions == 1

StateMessages ==
    {Message(Line1Temp, PayloadInt, <<>>), Message(Line2Temp, PayloadStr, <<"M">>)}

\* Bodies of POST /api/config: the fields they name replace those of the
\* configuration.
ConfigBodies == {[channelMode |-> mode] : mode \in {"verbose", "parameterized"}}

StateRules == {RuleLine}

\* The handlers that change the configuration and regenerate when there are
\* messages.
Reconfigured(cfg) ==
    /\ build = "full"
    /\ config' = cfg
    /\ IF Len(messages) > 0
       THEN Regenerated(messages, cfg)
       ELSE UNCHANGED <<channels, doc, schemas, hashToName, input>>
    /\ UNCHANGED <<auxVars, build, messages, processed, log, mergedInto, nCalls>>

StateUploadJson ==
    /\ Len(messages) < MaxStateMessages
    /\ \E message \in StateMessages : Uploaded(message)

\* POST /api/config: { ...projectState.config, ...req.body }
StatePostConfig == \E body \in ConfigBodies : Reconfigured(body @@ config)

\* mqttListener.on('message')
MqttMessage ==
    /\ build = "full"
    /\ Len(messages) < MaxStateMessages
    /\ \E message \in StateMessages : messages' = Append(messages, message)
    /\ UNCHANGED <<auxVars, build, config, channels, processed, doc, input,
                   schemas, hashToName, log, mergedInto, nCalls>>

\* POST /api/substitutions
PostSubstitution ==
    /\ Len(config.topicSubstitutions) < MaxSubstitutions
    /\ \E rule \in StateRules :
          Reconfigured([config EXCEPT !.topicSubstitutions = Append(@, rule)])

\* DELETE /api/substitutions/:index, index a position of the list
DeleteSubstitution ==
    \E index \in 0..(Len(config.topicSubstitutions) - 1) :
        Reconfigured([config EXCEPT
                        !.topicSubstitutions =
                            SubSeq(@, 1, index) \o SubSeq(@, index + 2, Len(@))])

\* POST /api/generate and the socket message 'generate'
PostGenerate ==
    /\ build = "full"
    /\ IF messages = <<>>
       THEN /\ doc' = <<>>
            /\ UNCHANGED <<channels, schemas, hashToName, input>>
       ELSE Regenerated(messages, config)
    /\ UNCHANGED <<auxVars, build, messages, config, processed, log, mergedInto, nCalls>>

\* POST /api/merge with a 3.0 document of this server for line/1/temp
StateExistingSpec ==
    ServerDocument(<<Message(Line1Temp, PayloadInt, <<"M">>)>>, Version("3.0.0"))

StatePostMerge ==
    /\ build = "full"
    /\ doc # <<>>
    /\ MergeCount < MaxMerges
    /\ MergeAnswered(StateExistingSpec, mergeAsyncAPIDocs(StateExistingSpec, doc))
    /\ UNCHANGED <<build, schemas, hashToName, log, mergedInto, nCalls,
                   messages, config, channels, processed, input,
                   hashed, detected, manager, added, eventLoop, fnCall>>

StateNext ==
    \/ StateUploadJson \/ StatePostConfig \/ MqttMessage
    \/ PostSubstitution \/ DeleteSubstitution \/ PostGenerate
    \/ StatePostMerge \/ PostClear

SpecState == ServerInit /\ [][StateNext]_vars

-----------------------------------------------------------------------------
(* mergeAsyncAPI26 and mergeAsyncAPI30 called with generated documents *)

MaxFrameMessages == 2
MaxFrameMerges == 2

FrameMessages ==
    {Message(Line2Temp, PayloadStr, <<>>), Message(Line1Temp, PayloadStr, <<>>)}

FrameSequences ==
    UNION {[1..n -> FrameMessages] : n \in 0..MaxFrameMessages}

\* Documents of the lib generators and one of the server's, of one dialect.
FrameDocs(version) ==
    {generateAsyncAPISpec(msgs, Version(version)).doc : msgs \in FrameSequences}
        \cup {ServerDocument(<<Message(Line1Temp, PayloadInt, <<"M">>)>>, Version(version))}

\* The call, the two documents before and after it, and what it returned.
FrameMerged(version, existing, newDoc, calls) ==
    /\ fnCall' =
          [fn |-> IF version = "2.6.0" THEN "mergeAsyncAPI26" ELSE "mergeAsyncAPI30",
           version |-> version, calls |-> calls,
           existing |-> existing, newDoc |-> newDoc,
           returned |-> IF version = "2.6.0" THEN mergeAsyncAPI26(existing, newDoc)
                        ELSE mergeAsyncAPI30(existing, newDoc),
           existingAfter |-> IF version = "2.6.0" THEN srv_existingAfter26(existing, newDoc)
                             ELSE srv_existingAfter30(existing, newDoc),
           newDocAfter |-> srv_newDocAfter(existing, newDoc)]
    /\ UNCHANGED <<build, schemas, hashToName, log, mergedInto, nCalls,
                   messages, config, channels, processed, doc, input,
                   mergeCall, hashed, detected, manager, added, eventLoop>>

\* Two generated documents are merged.
MergeGenerated ==
    /\ fnCall = <<>>
    /\ \E version \in {"2.6.0", "3.0.0"} :
          \E existing, newDoc \in FrameDocs(version) :
             FrameMerged(version, existing, newDoc, 1)

\* What the last call returned is merged into another document, as
\* POST /api/merge does with generatedSpec.
MergeReturned ==
    /\ fnCall # <<>>
    /\ fnCall.calls < MaxFrameMerges
    /\ \E existing \in FrameDocs(fnCall.version) :
          FrameMerged(fnCall.version, existing, fnCall.returned, fnCall.calls + 1)

FrameNext == MergeGenerated \/ MergeReturned

SpecFrame == ServerInit /\ [][FrameNext]_vars

-----------------------------------------------------------------------------
(* The server with a broker configuration *)

MaxRefMessages == 2

RefMessages ==
    {Message(SlashAB, PayloadInt, <<>>), Message(DashAB, PayloadStr, <<>>),
     Message(Line1Temp, PayloadStr, <<"M">>), Message(Line2Temp, PayloadInt, <<"M">>)}

RefBodies == {[version |-> v, asyncApiVersion |-> v] : v \in {"3.0.0", "2.6.0"}}

\* Bodies of POST /api/mqtt/connect, without and with a username.
MqttBodies == {[host |-> <<"h">>, username |-> <<>>], [host |-> <<"h">>, username |-> <<"u">>]}

RefsUploadJson ==
    /\ Len(messages) < MaxRefMessages
    /\ \E message \in RefMessages : Uploaded(message)

RefsPostConfig == \E body \in RefBodies : Reconfigured(body @@ config)

\* POST /api/mqtt/connect: projectState.config.mqtt is assigned, whether the
\* connection succeeds or not; nothing is regenerated.
PostMqttConnect ==
    /\ build = "full"
    /\ \E body \in MqttBodies : config' = [mqtt |-> body] @@ config
    /\ UNCHANGED <<auxVars, build, messages, channels, processed, doc, input,
                   schemas, hashToName, log, mergedInto, nCalls>>

RefsNext == RefsUploadJson \/ RefsPostConfig \/ PostMqttConnect \/ PostGenerate \/ PostClear

SpecRefs == ServerInit /\ [][RefsNext]_vars

-----------------------------------------------------------------------------
(* Properties of the channel mappers and the generators *)

HasInput == "messages" \in DOMAIN input
HasDoc == "asyncapi" \in DOMAIN doc

Topics(chans) == [i \in 1..Len(chans) |-> chans[i].topic]
DistinctTopics(chans) ==
    \A i, j \in 1..Len(chans) : chans[i].topic = chans[j].topic => i = j

LineIdTemp ==
    <<"l", "i", "n", "e", "/", "{", "l", "i", "n", "e", "I", "d", "}", "/", "t", "e", "m", "p">>
Line_lineId_temp ==
    <<"l", "i", "n", "e", "_", "l", "i", "n", "e", "I", "d", "_", "t", "e", "m", "p">>
Line_1_temp == <<"l", "i", "n", "e", "_", "1", "_", "t", "e", "m", "p">>
Line_2_temp == <<"l", "i", "n", "e", "_", "2", "_", "t", "e", "m", "p">>

IsLineTopic(topic) == topic \in {Line1Temp, Line2Temp}

\* The topic of a record after all rules of the configuration, in list order.
SubstitutedTopic(message) ==
    applySubstitutions(message.topic, input.config.topicSubstitutions).parameterizedTopic

\* C7: in parameterized mode buildChannels groups the records by the topic
\* obtained after applying all rules in list order: the channels have pairwise
\* distinct topics, every record's substituted topic is a channel's topic, and
\* each channel holds exactly the records whose substituted topic equals its
\* topic, in arrival order. With the single rule {levelIndex:1,
\* parameterName:"lineId"} the records of line/1/temp and line/2/temp are in
\* one channel with topic line/{lineId}/temp, parameter lineId and channelId
\* line_lineId_temp; with a second rule on the same level after another one,
\* the placeholder of the later rule is the one in the topic.
C7_ParameterizedGrouping ==
    (build = "full" /\ HasInput /\ input.config.channelMode = "parameterized") =>
        /\ DistinctTopics(channels)
        /\ \A k \in 1..Len(input.messages) :
              \E i \in 1..Len(channels) :
                 channels[i].topic = SubstitutedTopic(input.messages[k])
        /\ \A i \in 1..Len(channels) :
              /\ channels[i].messages =
                    SelectSeq(input.messages,
                              LAMBDA m : SubstitutedTopic(m) = channels[i].topic)
              /\ channels[i].messages # <<>>
        /\ input.config.topicSubstitutions \in {<<RuleLine>>, <<RuleDigits, RuleLine>>} =>
              \A i \in 1..Len(channels) :
                 (\E k \in 1..Len(channels[i].messages) :
                     IsLineTopic(channels[i].messages[k].topic)) =>
                    /\ channels[i].topic = LineIdTemp
                    /\ channels[i].channelId = Line_lineId_temp
                    /\ HasKey(channels[i].parameters, LineId)
                    /\ \A k \in 1..Len(input.messages) :
                          IsLineTopic(input.messages[k].topic) =>
                             input.messages[k] \in Range(channels[i].messages)
        /\ input.config.topicSubstitutions = <<RuleLine>> =>
              \A i \in 1..Len(channels) :
                 channels[i].topic = LineIdTemp => Keys(channels[i].parameters) = <<LineId>>

\* The scenario of C7: records of line/1/temp and of line/2/temp under the
\* single rule, grouped into one channel.
C7_Witness ==
    /\ build = "full" /\ HasInput
    /\ input.config.channelMode = "parameterized"
    /\ input.config.topicSubstitutions = <<RuleLine>>
    /\ {Line1Temp, Line2Temp} \subseteq Range(Topics(input.messages))
    /\ Len(channels) = 1
    /\ channels[1].topic = LineIdTemp
    /\ Len(channels[1].messages) = Len(input.messages)

\* C8: in verbose mode buildChannels returns exactly one channel per distinct
\* literal topic among the records, in order of first arrival; each channel's
\* messages are exactly the records with that topic in arrival order, its
\* parameters are empty and its channelId is topicToChannelId(topic); the
\* topics line/1/temp and line/2/temp give the ids line_1_temp and line_2_temp.
C8_VerboseMode ==
    (build = "full" /\ HasInput /\ input.config.channelMode = "verbose") =>
        /\ Topics(channels) = Dedupe(Topics(input.messages))
        /\ \A i \in 1..Len(channels) :
              /\ channels[i].messages =
                    SelectSeq(input.messages, LAMBDA m : m.topic = channels[i].topic)
              /\ channels[i].parameters = <<>>
              /\ channels[i].channelId = topicToChannelId(channels[i].topic)
              /\ channels[i].topic = Line1Temp => channels[i].channelId = Line_1_temp
              /\ channels[i].topic = Line2Temp => channels[i].channelId = Line_2_temp

\* The scenario of C8 with a topic that arrives twice: two channels, the
\* first one holding two records.
C8_Witness ==
    /\ build = "full" /\ HasInput
    /\ input.config.channelMode = "verbose"
    /\ Topics(input.messages) = <<Line1Temp, Line2Temp, Line1Temp>>
    /\ Len(channels) = 2
    /\ Len(channels[1].messages) = 2
    /\ channels[2].channelId = Line_2_temp

\* C9: the static application's processMessages produces the same channel
\* topics as the server's buildChannels for the same records and
\* configuration, where buildChannels returns.
C9_SameChannelTopics ==
    (/\ build = "static" /\ HasInput /\ HasDoc
     /\ ~buildChannelsThrows(input.messages, input.config)) =>
        Range(Topics(processed.channels))
            = Range(Topics(buildChannels(input.messages, input.config)))

\* The channel topics of a document: the keys of channels in 2.6, the address
\* values in 3.0.
DocTopics(d) ==
    IF d.asyncapi = "2.6.0"
    THEN Range(Keys(d.channels))
    ELSE {d.channels[i][2].address : i \in 1..Len(d.channels)}

\* The operations of a document: one inside each channel item in 2.6, the
\* entries of operations in 3.0.
OperationCount(d) ==
    IF d.asyncapi = "2.6.0"
    THEN Cardinality({i \in 1..Len(d.channels) : "publish" \in DOMAIN d.channels[i][2]})
    ELSE Len(d.operations)

\* C10: for channels with pairwise distinct topics the generated document
\* has one channel entry and one operation per input channel, and its set of
\* channel topics equals the set of input channel topics.
C10_ChannelPreservation ==
    (build = "full" /\ HasDoc /\ DistinctTopics(channels)) =>
        /\ DocTopics(doc) = Range(Topics(channels))
        /\ Len(doc.channels) = Len(channels)
        /\ OperationCount(doc) = Len(channels)

\* The schema a message definition refers to.
SchemaOf(message) == message.payload.ref[3]

\* The topic of the i-th channel entry of a document.
ChannelTopic(d, i) ==
    IF d.asyncapi = "2.6.0" THEN d.channels[i][1] ELSE d.channels[i][2].address

\* The schemas the message definitions of the i-th channel entry refer to:
\* in 2.6 the message (or the oneOf list) of the channel's operation, in 3.0
\* the component messages the channel's message map points to.
ChannelSchemas(d, i) ==
    IF d.asyncapi = "2.6.0"
    THEN LET item == d.channels[i][2]
             operation == IF "publish" \in DOMAIN item THEN item.publish ELSE item.subscribe
         IN  IF "message" \notin DOMAIN operation THEN {}
             ELSE IF "oneOf" \in DOMAIN operation.message
             THEN {SchemaOf(operation.message.oneOf[k]) :
                      k \in 1..Len(operation.message.oneOf)}
             ELSE {SchemaOf(operation.message)}
    ELSE LET refs == d.channels[i][2].messages
         IN  {SchemaOf(Get(d.components.messages, refs[k][1])) : k \in 1..Len(refs)}

\* What register returned for each record in processMessages, with the topic
\* the record was filed under.
RECURSIVE LibReturned(_, _, _)
LibReturned(state, msgs, cfg) ==
    IF msgs = <<>> THEN <<>>
    ELSE LET topic == applyTopicSubstitutions(Head(msgs).topic, cfg.topicSubstitutions)
             registered == lib_register(state.registry, generateSchemaName(topic),
                                        lib_inferSchema(Head(msgs).payload, TRUE))
         IN  <<[topic |-> topic, name |-> registered.ret]>>
             \o LibReturned(lib_processMessage(state, Head(msgs), cfg), Tail(msgs), cfg)

\* C11: in the static application, the schemas referenced by the message
\* definitions of every channel of the generated document are exactly the
\* names register returned for the records of that channel.
C11_SchemasOfChannel ==
    (build = "static" /\ HasInput /\ HasDoc) =>
        LET returned == LibReturned([registry |-> NewRegistry, channelMap |-> <<>>],
                                    input.messages, input.config)
        IN  \A i \in 1..Len(doc.channels) :
                ChannelSchemas(doc, i)
                    = {returned[k].name :
                          k \in {n \in 1..Len(returned) :
                                    returned[n].topic = ChannelTopic(doc, i)}}

-----------------------------------------------------------------------------
(* Properties of the merge *)

HasMerged == mergeCall # <<>> /\ "doc" \in DOMAIN mergeCall.outcome

\* The documents the server generates from the uploads of the merge model.
GeneratedDocs ==
    {ServerDocument(msgs, cfg) :
        msgs \in UNION {[1..k -> MergeMessages] : k \in 1..MaxMergeMessages},
        cfg \in MergeConfigs}

\* The bodies that are documents of the server's generators.
ServerExisting ==
    {ServerDocument(<<Message(Line1Temp, PayloadInt, <<"M">>)>>, Version(v)) :
        v \in {"3.0.0", "2.6.0"}}

NoDuplicate(list) == \A i, j \in 1..Len(list) : list[i] = list[j] => i = j

\* The reference targets of the publish operation of a 2.6 channel item.
PublishRefs(item) ==
    IF "publish" \in DOMAIN item /\ "message" \in DOMAIN item.publish
    THEN [i \in 1..Len(Messages26(item.publish.message)) |->
             Messages26(item.publish.message)[i].payload.ref]
    ELSE <<>>

\* C12: after a merge of two documents of the same dialect's generator, for
\* every channel key present in both, every message reference of the incoming
\* channel's operation is listed by the merged channel's operation, and no
\* reference target is listed twice there.
C12_MergeKeepsReferences ==
    (/\ HasMerged
     /\ mergeCall.existing \in ServerExisting
     /\ mergeCall.incoming \in GeneratedDocs
     /\ mergeCall.existing.asyncapi = mergeCall.incoming.asyncapi) =>
        LET existing == mergeCall.existing
            incoming == mergeCall.incoming
            result == mergeCall.outcome.doc
        IN  IF incoming.asyncapi = "2.6.0"
            THEN \A key \in Range(Keys(existing.channels)) \cap Range(Keys(incoming.channels)) :
                    /\ Range(PublishRefs(Get(incoming.channels, key)))
                          \subseteq Range(PublishRefs(Get(result.channels, key)))
                    /\ NoDuplicate(PublishRefs(Get(result.channels, key)))
            ELSE \A i \in 1..Len(incoming.operations) :
                    LET opId == incoming.operations[i][1]
                        operation == incoming.operations[i][2]
                    IN  operation.channel.ref[2] \in Range(Keys(existing.channels)) =>
                            /\ HasKey(result.operations, opId)
                            /\ Range(operation.messages)
                                  \subseteq Range(Get(result.operations, opId).messages)
                            /\ NoDuplicate(Get(result.operations, opId).messages)

ChannelKeys(d) == Range(Keys(Field(d, "channels", <<>>)))
SchemaNames(d) == DOMAIN Component(d, "schemas", EmptyMap)
MessageNames(d) == Range(Keys(Component(d, "messages", <<>>)))

\* C13: the merge of two documents of one dialect has the channel keys, the
\* schema names and the component message names of both, and a schema or a
\* component message of the existing document is kept as it is.
C13_MergeUnions ==
    (HasMerged /\ mergeCall.existing.asyncapi = mergeCall.incoming.asyncapi) =>
        LET existing == mergeCall.existing
            incoming == mergeCall.incoming
            result == mergeCall.outcome.doc
        IN  /\ ChannelKeys(result) = ChannelKeys(existing) \cup ChannelKeys(incoming)
            /\ SchemaNames(result) = SchemaNames(existing) \cup SchemaNames(incoming)
            /\ MessageNames(result) = MessageNames(existing) \cup MessageNames(incoming)
            /\ \A name \in SchemaNames(existing) :
                  result.components.schemas[name] = existing.components.schemas[name]
            /\ \A name \in MessageNames(existing) :
                  Get(result.components.messages, name)
                      = Get(existing.components.messages, name)

Marked(d) == "asyncapi" \in DOMAIN d
Dialect(d) == IF d.asyncapi \in Markers2x THEN "2.x" ELSE "3.x"

\* C14: a merge request whose documents are of different dialects, or one of
\* which has no version marker, is answered with an error and yields no merged
\* document.
C14_MergeFailsFast ==
    (/\ mergeCall # <<>>
     /\ \/ ~Marked(mergeCall.existing)
        \/ ~Marked(mergeCall.incoming)
        \/ Dialect(mergeCall.existing) # Dialect(mergeCall.incoming)) =>
        /\ "threw" \in DOMAIN mergeCall.outcome
        /\ "doc" \notin DOMAIN mergeCall.outcome

-----------------------------------------------------------------------------
(* Properties of the error handling of the rules *)

HasBrokenRule(cfg) ==
    \E i \in 1..Len(cfg.topicSubstitutions) :
        /\ "pattern" \in DOMAIN cfg.topicSubstitutions[i]
        /\ RegExpThrows(cfg.topicSubstitutions[i].pattern)

\* The records filed in the channels, as a bag of their number per record.
Filed(chans, message) ==
    LET RECURSIVE Sum(_)
        Sum(i) == IF i = 0 THEN 0
                  ELSE Sum(i - 1)
                       + Cardinality({k \in 1..Len(chans[i].messages) :
                                         chans[i].messages[k] = message})
    IN  Sum(Len(chans))

\* C15: on the server, with a rule whose pattern is no regular expression in
\* the configuration, the channels are still built from the records received
\* and the configuration in force, and every record is in a channel.
C15_BrokenRuleSkipped ==
    (build = "full" /\ Len(messages) > 0 /\ HasBrokenRule(config)) =>
        /\ HasInput
        /\ input.messages = messages
        /\ input.config = config
        /\ \A i \in 1..Len(messages) :
              Filed(channels, messages[i])
                  = Cardinality({k \in 1..Len(messages) : messages[k] = messages[i]})

-----------------------------------------------------------------------------
(* Further properties of the registries *)

\* C16: register returns, and the name it returns is a key of the registry
\* afterwards. Every name hashToName maps to is an entry, so the entry that
\* register dereferences exists; the server's loop over name_1, name_2, ...
\* stops within as many rounds as the registry has entries.
C16_RegisterReturnsKey ==
    /\ \A hash \in DOMAIN hashToName : hashToName[hash] \in DOMAIN schemas
    /\ (log # <<>> /\ Last.op = "register") =>
          /\ Last.ret \in DOMAIN schemas
          /\ (build = "full" /\ Last.how = "new") =>
                \/ Last.ret = Last.name
                \/ \E counter \in 1..Cardinality(DOMAIN Last.pre) :
                      Last.ret = Suffixed(Last.name, counter)

\* The server's loop has gone round twice: A and A_1 were taken.
C16_Witness ==
    /\ build = "full"
    /\ log # <<>>
    /\ Last.op = "register"
    /\ Last.ret = Suffixed(Last.name, 2)
    /\ Last.ret \in DOMAIN schemas

\* C18: in the server registry the keys of hashToName are the content hashes
\* of the entries, one entry per hash; a register adds the submitted hash to
\* them and nothing else, so they are the distinct hashes submitted since the
\* last clear. It leaves the fragment of every existing entry as it is, and
\* for an unmapped hash it stores the fragment under the proposed name if that
\* is free, else under the first free one of name_1, name_2, ...
C18_SuffixPolicy ==
    build = "full" =>
        /\ Cardinality(DOMAIN schemas) = Cardinality(DOMAIN hashToName)
        /\ DOMAIN hashToName = {srv_hashSchema(schemas[n].schema) : n \in DOMAIN schemas}
        /\ (log # <<>> /\ Last.op = "clear") => DOMAIN hashToName = {}
        /\ (log # <<>> /\ Last.op = "register") =>
              /\ DOMAIN hashToName
                    = DOMAIN Last.preHashToName \cup {srv_hashSchema(Last.schema)}
              /\ \A n \in DOMAIN Last.pre : schemas[n].schema = Last.pre[n].schema
              /\ srv_hashSchema(Last.schema) \notin DOMAIN Last.preHashToName =>
                    /\ Last.ret \notin DOMAIN Last.pre
                    /\ schemas[Last.ret].schema = Last.schema
                    /\ IF Last.name \notin DOMAIN Last.pre
                       THEN Last.ret = Last.name
                       ELSE \E counter \in 1..Cardinality(DOMAIN Last.pre) :
                               /\ Last.ret = Suffixed(Last.name, counter)
                               /\ \A earlier \in 1..(counter - 1) :
                                     Suffixed(Last.name, earlier) \in DOMAIN Last.pre

\* Three contents under three names, the last one minted as A_2 because A
\* and A_1 were taken.
C18_Witness ==
    /\ build = "full"
    /\ DOMAIN schemas = {A, A_1, Suffixed(A, 2)}
    /\ Cardinality(DOMAIN hashToName) = 3
    /\ log # <<>>
    /\ Last.op = "register"
    /\ Last.name = A
    /\ Last.how = "new"
    /\ Last.ret = Suffixed(A, 2)

-----------------------------------------------------------------------------
(* Properties of hashSchema *)

\* C17: a fragment and a fragment that differs from it only in the order of
\* properties, in the order of required and in examples, at any depth, have
\* the same hash under the hashSchema of both inferrers.
C17_HashInvariant ==
    hashed # <<>> =>
        /\ lib_hashSchema(hashed.variant) = lib_hashSchema(hashed.schema)
        /\ srv_hashSchema(hashed.variant) = srv_hashSchema(hashed.schema)

\* A fragment of the server's inferrer that has lost the examples of a nested
\* property and has its properties in another order.
C17_Witness ==
    /\ hashed # <<>>
    /\ "_timestamp" \in Range(Keys(Props(hashed.schema)))
    /\ Keys(Props(hashed.variant)) # Keys(Props(hashed.schema))
    /\ \E i, j \in 1..Len(Props(hashed.schema)) :
          /\ hashed.variant.properties[j][1] = hashed.schema.properties[i][1]
          /\ "examples" \in DOMAIN hashed.schema.properties[i][2]
          /\ "examples" \notin DOMAIN hashed.variant.properties[j][2]

-----------------------------------------------------------------------------
(* Properties of detectParameters *)

HasDetected == detected # <<>>

\* The distinct segments the topics have at a level.
SegmentsAtLevel(msgs, level) ==
    {Split(msgs[i].topic, {"/"})[level + 1] :
        i \in {j \in 1..Len(msgs) : level < Len(Split(msgs[j].topic, {"/"}))}}

RulesAtLevel(suggestions, level) ==
    {i \in 1..Len(suggestions) : suggestions[i].levelIndex = level}

\* The name the priority gives to a set of segments at a level.
NameByPriority(segments, level) ==
    IF \A v \in segments : IsUuid(v) THEN NameUuid
    ELSE IF \A v \in segments : IsNumeric(v) THEN Id
    ELSE IF \E v \in segments : IncludesLower(v, WordMachine) THEN NameMachineId
    ELSE IF \E v \in segments : IncludesLower(v, WordArea) THEN NameAreaId
    ELSE IF \E v \in segments : IncludesLower(v, WordLine) THEN LineId
    ELSE NameParam(level)

UuidScenario(msgs) ==
    /\ Len(msgs) = 2
    /\ msgs[1].topic # msgs[2].topic
    /\ LET one == Split(msgs[1].topic, {"/"})
           two == Split(msgs[2].topic, {"/"})
       IN  /\ Len(one) = Len(two) /\ Len(one) >= 2
           /\ IsUuid(one[2]) /\ IsUuid(two[2])
           /\ \A k \in 1..Len(one) : k # 2 => one[k] = two[k]

\* C19: detectParameters returns exactly one rule for each level whose number
\* of distinct segments over all the topics is at least minVariants, and no
\* rule for any other level; the rule lists all the distinct segments of its
\* level as values, each once, and its name is uuid where all of them have
\* the shape of a UUID, else id where all are numeric, else the name of the
\* first of machine, area, line that some segment contains, else param{level}.
\* Two topics that differ only in UUID-shaped segments at level 1 give, under
\* the default minVariants, the single rule uuid at levelIndex 1.
C19_DetectParameters ==
    HasDetected =>
        LET msgs == detected.messages
            rules == detected.suggestions
        IN  /\ \A i \in 1..Len(rules) : rules[i].levelIndex \in 0..(LevelCount(msgs) - 1)
            /\ \A level \in 0..LevelCount(msgs) :
                  Cardinality(RulesAtLevel(rules, level)) =
                      IF Cardinality(SegmentsAtLevel(msgs, level)) >= detected.minVariants
                      THEN 1 ELSE 0
            /\ \A i \in 1..Len(rules) :
                  LET segments == SegmentsAtLevel(msgs, rules[i].levelIndex)
                  IN  /\ Range(rules[i].values) = segments
                      /\ Len(rules[i].values) = Cardinality(segments)
                      /\ rules[i].parameterName =
                             NameByPriority(segments, rules[i].levelIndex)
            /\ (UuidScenario(msgs) /\ detected.minVariants = DefaultMinVariants) =>
                  /\ Len(rules) = 1
                  /\ rules[1].levelIndex = 1
                  /\ rules[1].parameterName = NameUuid

C19_Witness ==
    /\ HasDetected
    /\ UuidScenario(detected.messages)
    /\ detected.minVariants = DefaultMinVariants
    /\ Len(detected.suggestions) = 1
    /\ detected.suggestions[1].parameterName = NameUuid
    /\ detected.suggestions[1].values = <<Uuid("a"), Uuid("B")>>

-----------------------------------------------------------------------------
(* Properties of ChannelManager *)

\* The calls since the last clear, and whether there was a clear.
LastClear ==
    IF \E i \in 1..Len(added) : added[i].op = "clear"
    THEN CHOOSE i \in 1..Len(added) :
            added[i].op = "clear" /\ \A k \in (i + 1)..Len(added) : added[k].op # "clear"
    ELSE 0
SinceClear == [i \in 1..(Len(added) - LastClear) |-> added[LastClear + i].message]

\* The payloads added since the last clear for the topic of a channel.
AddedFor(topic) ==
    LET mine == SelectSeq(SinceClear,
                    LAMBDA m : applyTopicSubstitutions(
                                   m.topic, manager.config.topicSubstitutions) = topic)
    IN  [i \in 1..Len(mine) |-> mine[i].payload]

FirstOf(seq, n) == SubSeq(seq, 1, IF Len(seq) < n THEN Len(seq) ELSE n)

-----------------------------------------------------------------------------
(* Properties of the server on the event loop *)

Running == eventLoop # <<>> /\ eventLoop.stack # <<>>

\* C21: every regenerateSpec runs the register calls of all its channels
\* before any other handler runs: at most one regeneration has begun and not
\* returned, the message list and the configuration are the ones it began
\* with, the global registry is the one it registers in, and the document it
\* assigns is the one the generator makes of that one message list.
C21_RegenerationsSerialized ==
    eventLoop # <<>> =>
        /\ Len(eventLoop.stack) <= 1
        /\ \A i \in 1..Len(eventLoop.stack) :
              /\ eventLoop.stack[i].messages = messages
              /\ eventLoop.stack[i].config = config
              /\ eventLoop.stack[i].state.registry =
                     [schemas |-> schemas, hashToName |-> hashToName]
        /\ (HasDoc /\ HasInput) => doc = ServerDocument(input.messages, input.config)

\* A regeneration of two channels between its two rounds, after another has
\* returned.
C21_Witness ==
    /\ Running
    /\ eventLoop.returned # <<>>
    /\ Len(eventLoop.stack[1].built) = 2
    /\ Len(eventLoop.stack[1].todo) = 1
    /\ DOMAIN schemas # {}

-----------------------------------------------------------------------------
(* Properties of applySubstitutions *)

LastRule == fnCall.substitutions[Len(fnCall.substitutions)]
HasLastRule == fnCall # <<>> /\ fnCall.substitutions # <<>>

\* The segments of the topic as the rules before the last one have left it.
SegmentsBefore == Split(fnCall.before.parameterizedTopic, {"/"})

\* levelIndex is a position of a segment.
ValidLevel(sub, parts) ==
    "levelIndex" \in DOMAIN sub /\ sub.levelIndex >= 0 /\ sub.levelIndex < Len(parts)

\* The precedence of the match policy: the listed values, else the pattern,
\* else every segment.
MatchesByPrecedence(sub, segment) ==
    IF "values" \in DOMAIN sub /\ sub.values # <<>>
    THEN \E i \in 1..Len(sub.values) : sub.values[i] = segment
    ELSE IF "pattern" \in DOMAIN sub /\ sub.pattern # <<>>
    THEN RegExpTest(sub.pattern, segment)
    ELSE TRUE

\* C22: applySubstitutions applies a rule only when its levelIndex is a
\* position of a segment of the topic and the segment matches by precedence
\* (the listed values, else the pattern, else always): then the segment
\* becomes the placeholder and the parameter is captured. A rule whose
\* levelIndex is negative or not below the number of segments, or whose test
\* fails, changes neither the topic nor the captured parameters.
C22_RuleAppliesInBounds ==
    HasLastRule =>
        IF /\ ValidLevel(LastRule, SegmentsBefore)
           /\ MatchesByPrecedence(LastRule, SegmentsBefore[LastRule.levelIndex + 1])
        THEN /\ fnCall.result.parameterizedTopic =
                    Join([SegmentsBefore EXCEPT ![LastRule.levelIndex + 1] =
                              <<"{">> \o LastRule.parameterName \o <<"}">>], <<"/">>)
             /\ fnCall.result.parameters =
                    Put(fnCall.before.parameters, LastRule.parameterName,
                        SegmentsBefore[LastRule.levelIndex + 1])
        ELSE fnCall.result = fnCall.before

\* The same for the rules whose levelIndex is not negative.
C22_FromLevelZero ==
    (HasLastRule /\ \A i \in 1..Len(fnCall.substitutions) :
                        fnCall.substitutions[i].levelIndex >= 0)
        => C22_RuleAppliesInBounds

-----------------------------------------------------------------------------
(* Properties of the parameters of the channels *)

IsPlaceholder(segment) ==
    Len(segment) >= 2 /\ segment[1] = "{" /\ segment[Len(segment)] = "}"

\* The names of the {name} placeholders of a topic.
PlaceholderNames(topic) ==
    LET parts == Split(topic, {"/"})
    IN  {SubSeq(parts[i], 2, Len(parts[i]) - 1) :
            i \in {k \in 1..Len(parts) : IsPlaceholder(parts[k])}}

\* The rules that have left their placeholder in the topic.
ReplacingRules(topic, substitutions, name) ==
    LET parts == Split(topic, {"/"})
    IN  {i \in 1..Len(substitutions) :
            /\ substitutions[i].parameterName = name
            /\ ValidLevel(substitutions[i], parts)
            /\ parts[substitutions[i].levelIndex + 1] = <<"{">> \o name \o <<"}">>}

\* The definition a rule gives to its parameter.
DefinitionOf(sub) ==
    (IF "description" \in DOMAIN sub /\ sub.description # <<>>
     THEN [description |-> sub.description] ELSE <<>>)
    @@ (IF "values" \in DOMAIN sub /\ sub.values # <<>>
        THEN [enum |-> sub.values] ELSE <<>>)

\* C23: for every channel built in parameterized mode the set of the names of
\* its parameters is the set of the {name} placeholders of its topic, and
\* each definition has the description and, where the rule lists values, the
\* enum of a rule that has made the replacement.
C23_ParametersArePlaceholders ==
    (build = "full" /\ HasInput /\ input.config.channelMode = "parameterized") =>
        \A i \in 1..Len(channels) :
            /\ Range(Keys(channels[i].parameters)) = PlaceholderNames(channels[i].topic)
            /\ \A k \in 1..Len(channels[i].parameters) :
                  \E r \in ReplacingRules(channels[i].topic, input.config.topicSubstitutions,
                                          channels[i].parameters[k][1]) :
                      channels[i].parameters[k][2] =
                          DefinitionOf(input.config.topicSubstitutions[r])

\* The same for the lists of a single rule of a level from 0 on.
C23_SingleRule ==
    (HasInput /\ Len(input.config.topicSubstitutions) = 1) => C23_ParametersArePlaceholders

-----------------------------------------------------------------------------
(* Properties of mergeSchemas *)

HasMergedSchemas == fnCall # <<>> /\ fnCall.fn = "mergeSchemas" /\ fnCall.merges > 0

TagSet(schema) == Range(Tags(TypeOf(schema)))

\* C24: when the type tags of two fragments differ, mergeSchemas returns a
\* fragment that has only a type, the sorted union of both tag sets, so that
\* mergeSchemas(a, b) and mergeSchemas(b, a) have the same type list and the
\* same hashSchema value.
C24_UnionIsSorted ==
    (HasMergedSchemas /\ TagSet(fnCall.schema1) # TagSet(fnCall.schema2)) =>
        /\ DOMAIN fnCall.result = {"type"}
        /\ TagSet(fnCall.result) = TagSet(fnCall.schema1) \cup TagSet(fnCall.schema2)
        /\ Tags(fnCall.result.type) = Sort(Tags(fnCall.result.type))
        /\ fnCall.result.type = fnCall.reverse.type
        /\ hashSchemaOf(fnCall.impl, fnCall.result) = hashSchemaOf(fnCall.impl, fnCall.reverse)

\* What holds of the union: it has only a type, whose tags are those of both
\* fragments, each once, those of the first fragment first.
C24_UnionInArgumentOrder ==
    (HasMergedSchemas /\ TagSet(fnCall.schema1) # TagSet(fnCall.schema2)) =>
        /\ DOMAIN fnCall.result = {"type"}
        /\ TagSet(fnCall.result) = TagSet(fnCall.schema1) \cup TagSet(fnCall.schema2)
        /\ TagSet(fnCall.reverse) = TagSet(fnCall.result)
        /\ Len(Tags(fnCall.result.type)) = Cardinality(TagSet(fnCall.result))

\* Every constraint of the general fragment holds of the other one: its
\* tags, its format, its required keys, and the same of the properties and
\* the items both have.
RECURSIVE Generalizes(_, _)
Generalizes(general, schema) ==
    /\ TagSet(schema) \subseteq TagSet(general)
    /\ "format" \in DOMAIN general =>
          "format" \in DOMAIN schema /\ schema.format = general.format
    /\ Range(Required(general)) \subseteq Range(Required(schema))
    /\ \A i \in 1..Len(Props(general)) :
          HasKey(Props(schema), Props(general)[i][1]) =>
              Generalizes(Props(general)[i][2], Get(Props(schema), Props(general)[i][1]))
    /\ (HasItems(general) /\ HasItems(schema)) => Generalizes(general.items, schema.items)

\* C25: mergeSchemas(a, b) is at least as general as a and as b: every
\* constraint of the result (type tags, format, required keys) is satisfied
\* by both; two scalar fragments of one type whose formats differ, or of
\* which one has no format, give a fragment without a format the other lacks.
C25_MergeGeneralizes ==
    HasMergedSchemas =>
        /\ Generalizes(fnCall.result, fnCall.schema1)
        /\ Generalizes(fnCall.result, fnCall.schema2)

\* The same without the formats.
C25_TagsAndRequired ==
    HasMergedSchemas =>
        /\ TagSet(fnCall.schema1) \cup TagSet(fnCall.schema2) \subseteq TagSet(fnCall.result)
        /\ Range(Required(fnCall.result)) \subseteq
               Range(Required(fnCall.schema1)) \cap Range(Required(fnCall.schema2))

-----------------------------------------------------------------------------
(* ChannelManager and processMessages *)

\* The fields of the channels the two are compared by.
ChannelFields(chans) ==
    [i \in 1..Len(chans) |->
        [topic |-> chans[i].topic, schemaRef |-> chans[i].schemaRef,
         messageCount |-> chans[i].messageCount, examples |-> chans[i].examples]]

-----------------------------------------------------------------------------
(* Properties of the references of a generated document *)

\* The pointers of the $ref of the servers of a document.
ServerRefs(d) ==
    IF "servers" \in DOMAIN d /\ "security" \in DOMAIN d.servers.production
    THEN {d.servers.production.security[i].ref :
             i \in 1..Len(d.servers.production.security)}
    ELSE {}

\* The messages of an operation of a 2.6 document.
OperationMessages26(operation) ==
    IF "message" \notin DOMAIN operation THEN {}
    ELSE IF "oneOf" \in DOMAIN operation.message
    THEN {operation.message.oneOf[i] : i \in 1..Len(operation.message.oneOf)}
    ELSE {operation.message}

ChannelRefs26(channelItem) ==
    UNION {{m.payload.ref : m \in OperationMessages26(channelItem[name])} :
              name \in DOMAIN channelItem \cap {"publish", "subscribe"}}

\* The pointers of payloads, channel messages and operations.
ListedRefs(d) ==
    IF d.asyncapi = "2.6.0"
    THEN UNION {ChannelRefs26(d.channels[i][2]) : i \in 1..Len(d.channels)}
    ELSE UNION {{d.channels[i][2].messages[j][2].ref :
                    j \in 1..Len(d.channels[i][2].messages)} : i \in 1..Len(d.channels)}
         \cup {d.operations[i][2].channel.ref : i \in 1..Len(d.operations)}
         \cup UNION {{d.operations[i][2].messages[j].ref :
                         j \in 1..Len(d.operations[i][2].messages)} :
                        i \in 1..Len(d.operations)}
         \cup {d.components.messages[i][2].payload.ref :
                  i \in 1..Len(d.components.messages)}

\* The pointer names an element of the document.
Resolves(d, path) ==
    CASE Len(path) = 2 ->
            path[1] = "channels" /\ HasKey(d.channels, path[2])
      [] Len(path) = 3 ->
            /\ path[1] = "components"
            /\ path[2] \in DOMAIN d.components
            /\ IF path[2] = "schemas"
               THEN path[3] \in DOMAIN d.components.schemas
               ELSE HasKey(d.components[path[2]], path[3])
      [] Len(path) = 4 ->
            /\ path[1] = "channels" /\ path[3] = "messages"
            /\ HasKey(d.channels, path[2])
            /\ HasKey(Get(d.channels, path[2]).messages, path[4])
      [] OTHER -> FALSE

\* C28: every $ref of a generated document names an element that exists in
\* the same document.
C28_EveryRefResolves ==
    (build = "full" /\ HasDoc) =>
        \A path \in ListedRefs(doc) \cup ServerRefs(doc) : Resolves(doc, path)

\* The $ref of payloads, of channel messages and of operations name elements
\* of the document, also where two channels have one channelId.
C28_ListedRefsResolve ==
    HasDoc => \A path \in ListedRefs(doc) : Resolves(doc, path)

-----------------------------------------------------------------------------
(* Properties of the documents given to a merge *)

HasFrameCall == fnCall # <<>> /\ fnCall.fn \in {"mergeAsyncAPI26", "mergeAsyncAPI30"}

\* C30: after mergeAsyncAPI26 or mergeAsyncAPI30 has returned, the existing
\* and the incoming document have the value they had before the call.
C30_MergeLeavesInputs ==
    HasFrameCall =>
        /\ fnCall.existingAfter = fnCall.existing
        /\ fnCall.newDocAfter = fnCall.newDoc

\* What holds: mergeAsyncAPI30 leaves both documents as they were, and
\* mergeAsyncAPI26 leaves the incoming document and, of the existing one,
\* everything but the subscribe operations of the channels both documents
\* have.
C30_OnlySubscribeWritten ==
    HasFrameCall =>
        /\ fnCall.newDocAfter = fnCall.newDoc
        /\ fnCall.fn = "mergeAsyncAPI30" => fnCall.existingAfter = fnCall.existing
        /\ \A name \in DOMAIN fnCall.existing \ {"channels"} :
              fnCall.existingAfter[name] = fnCall.existing[name]
        /\ \A i \in 1..Len(Field(fnCall.existing, "channels", <<>>)) :
              LET before == fnCall.existing.channels[i]
                  after == fnCall.existingAfter.channels[i]
              IN  /\ after[1] = before[1]
                  /\ after[2] # before[2] =>
                        /\ HasKey(fnCall.newDoc.channels, before[1])
                        /\ \A name \in DOMAIN before[2] \ {"subscribe"} :
                              after[2][name] = before[2][name]
                        /\ after[2].subscribe.message =
                              Get(fnCall.returned.channels, before[1]).subscribe.message

-----------------------------------------------------------------------------
(* Properties of the state of the server *)

\* C29: under any sequence of configuration updates, uploads, MQTT messages,
\* added and removed substitutions, generate, merge and clear requests,
\* generatedSpec is not null only while there are messages, and after
\* /api/clear there is no message and generatedSpec is null.
C29_SpecOnlyWithMessages ==
    /\ [](build = "full" => (doc # <<>> => messages # <<>>))
    /\ [][PostClear => (messages' = <<>> /\ doc' = <<>>)]_vars

\* A clear after a merge into the generated document.
C29_Witness ==
    /\ build = "full"
    /\ mergeCall # <<>> /\ "doc" \in DOMAIN mergeCall.outcome
    /\ messages = <<>>
    /\ doc = <<>>

\* A handler has called regenerateSpec, there being messages.
RegenerateStep ==
    /\ \/ StateUploadJson \/ StatePostConfig \/ PostSubstitution
       \/ DeleteSubstitution \/ PostGenerate
    /\ messages' # <<>>

====
